---- MODULE Spec2Model ----
(***************************************************************************)
(* Verification model of the NVR supervision and recording pipeline:       *)
(*   - supervisor.py      WorkerManager (monitor loop, restart back-off)   *)
(*   - core/ffmpeg_recorder.py  FFmpegRecorder (encoder subprocess)        *)
(*   - core/motion_detector.py  handle_motion_detection (motion timer)     *)
(*   - camera_worker.py   CameraWorker (capture / controller / stop)       *)
(* Each component has its own specifications (the supervisor: Spec,        *)
(* SpecTwo, SpecMain, SpecRespawn; the Recorder: SpecRec, SpecBuf; the     *)
(* motion timer: SpecMotion; the worker: SpecWorker, SpecShutdown,         *)
(* SpecLoop, SpecHealth, SpecCapture, SpecHeartbeat); a specification      *)
(* leaves the other components' variables untouched.                       *)
(***************************************************************************)
EXTENDS Integers, Sequences, FiniteSets, TLC

(***************************************************************************)
(* Bounds of the model.                                                    *)
(***************************************************************************)
\* the supervisor clock stops at MaxTime seconds
MaxTime == 7
\* status messages kept per worker channel in the model (capacity 1000 in the code)
MaxQueue == 1
\* start_recording calls made on the one FFmpegRecorder
MaxSessions == 2
\* encoder subprocesses launched by the one FFmpegRecorder
MaxEncoders == 6
\* the frame loop runs until this time (units of 10 ms)
MaxMotionTime == 650
\* FFmpegRecorder instances one worker creates
MaxRecorders == 2
\* capacity of the pre-roll ring, pre_record_time * fps frames
PreRollCapacity == 2
\* maxsize of the write queue, in frames
WriteQueueMaxsize == 4
\* largest value of dropped_frames that is followed
MaxDropped == 3
\* the recording loop followed second by second: its clock stops here
MaxLoopTime == 8
\* the recording loop followed from one stream-health check to the next: its
\* clock stops here
MaxHealthTime == 45

\* the capture loop: the clock of the connected stream stops here
MaxCapTime == 7

\* the supervisor followed through a failed stop and a re-spawn: its clock
\* stops here
MaxRespawnTime == 14

\* the capture loop: connection_failures is followed up to here
MaxConnectionFailures == 6

(***************************************************************************)
(* Program constants.                                                      *)
(***************************************************************************)
\* WorkerManager(heartbeat_timeout=2.0, max_restart_delay=5.0), seconds
heartbeat_timeout == 2
max_restart_delay == 5
\* time.sleep(2.0) of the monitor loop
MonitorInterval == 2
\* process.join(timeout=5.0) and process.join(timeout=2.0) of _stop_worker
StopJoinTimeout == 5
StopTerminateTimeout == 2
\* stop(): monitor_thread.join(timeout=5.0)
MonitorJoinTimeout == 5
\* _init_worker: mp.Queue(maxsize=100), mp.Queue(maxsize=1000)
CmdQueueMaxsize == 100
StatusQueueMaxsize == 1000
\* the supervisor process has not exited
NoExit == -1
\* the clock when main() calls WorkerManager.start()
MainStart == MaxTime - 3

\* FFmpegRecorder.max_restarts
max_restarts == 3
\* CameraWorker.__init__ and _main_stream_loop, in seconds and frames/second
post_record_time == 5
StreamHealthInterval == 5
max_stream_failures_during_recording == 3
max_stream_downtime_during_recording == 30
expected_fps == 15

\* _sub_stream_loop: max_connection_failures, max_consecutive_frame_failures
\* and max_frame_gap (seconds)
max_connection_failures == 5
max_consecutive_frame_failures == 10
max_frame_gap == 5

\* _should_force_immediate_shutdown: a write queue of more than 50 of maxsize
\* 1000 frames counts as backed up, in proportion
write_queue_backup == WriteQueueMaxsize \div 20

Cameras == {"cam1", "cam2"}
\* dict order of self.workers (insertion order of the camera ids)
CameraOrder == <<"cam1", "cam2">>

\* Optional[datetime] = None, Optional[mp.Process] = None
NoTime == -1
\* core/motion_detector.py and camera_worker.py, in units of 10 ms
TIMING_TOLERANCE == 1
MIN_MOTION_DURATION == 10
motion_timeout == 150
motion_trigger_cooldown == 200
\* time.time() when the frame loop starts: any value later than every
\* cooldown counted from 0.0
StartTime == motion_trigger_cooldown
\* time between two frames handed to the motion timer
FrameSteps == {50, 149}
NoProcess == 0
\* datetime.now() when the two-camera deployment starts
TwoStart == MaxTime - 5

Min(a, b) == IF a < b THEN a ELSE b
Max(a, b) == IF a > b THEN a ELSE b

VARIABLES
    \* ---- supervisor.py ----
    now,            \* datetime.now() of the supervisor host, whole seconds
    workers,        \* keys of WorkerManager.workers
    state,          \* WorkerInfo.state
    process,        \* WorkerInfo.process (pid of the handle, NoProcess = None)
    alive,          \* per camera: the pids of its child processes that are alive
    last_heartbeat, \* WorkerInfo.last_heartbeat
    restart_count,  \* WorkerInfo.restart_count
    next_restart,   \* WorkerInfo.next_restart
    status_queue,   \* WorkerInfo.status_queue
    mon_pc,         \* position of the monitor thread in _monitor_loop
    mon_i,          \* index of the worker the monitor loop is at
    current_time,   \* current_time of the running monitor iteration
    mon_wake,       \* end of the monitor's time.sleep
    mon_ev,         \* what the monitor thread's last step did (observation)
    unhealthy_since, \* when each worker last entered Unhealthy (observation)
    \* ---- core/ffmpeg_recorder.py (one FFmpegRecorder) ----
    ff_recording,          \* self.recording
    ff_recording_failed,   \* self.recording_failed
    ff_restart_count,      \* self.restart_count
    ff_process,            \* self.process (encoder id, NoProcess = None)
    ff_monitor_thread,     \* self.monitor_thread (thread id, 0 = None)
    ff_stop_monitor_event, \* self.stop_monitor_event
    encoders,              \* status of every encoder subprocess launched so far
    ff_call_pc,            \* position of the calling thread in start/stop_recording
    ff_mon_pc,             \* position of each monitor thread in _monitor_ffmpeg_process
    \* ---- core/motion_detector.py (one motion state dictionary) ----
    mt_now,                \* the clock of the frame loop, in units of 10 ms
    md_state,              \* the state dictionary of handle_motion_detection
    md_ev,                 \* what the last handle_motion_detection call did (observation)
    md_last_confirm,       \* time of the last confirmation with no recording end since
    md_burst_confirms,     \* confirmations in the present run of motion frames (observation)
    \* ---- camera_worker.py (one CameraWorker) ----
    wk_running,                  \* self.running
    wk_recording,                \* self._recording
    wk_recorder,                 \* self.recorder (instance id, 0 = None)
    wk_recording_event,          \* self.recording_event
    wk_stop_recording_event,     \* self.stop_recording_event
    wk_motion_detected,          \* self.motion_detected
    wk_motion_start_time,        \* self.motion_start_time
    wk_motion_trigger_sent,      \* self.motion_trigger_sent
    wk_last_motion_trigger_time, \* self.last_motion_trigger_time
    wk_ev,                       \* what the last capture-loop frame did (observation)
    ctl_pc,                      \* position of the main-stream thread
    ctl_inst,                    \* the Recorder whose method the main-stream thread is in
    stp_pc,                      \* position of each thread that runs stop()
    stp_inst,                    \* the Recorder whose method that thread is in
    rc_lock,                     \* holder of each Recorder's self.lock
    rc_recording,                \* each Recorder's self.recording
    \* ---- supervisor.py: main(), WorkerManager.start() and stop() ----
    configs,          \* the camera configurations CameraHelper._load_cameras() returns
    main_pc,          \* position of the main thread in main()
    sup_running,      \* WorkerManager.running
    monitor_started,  \* WorkerManager.monitor_thread has been started
    exit_code,        \* exit code of the supervisor process (NoExit while it runs)
    stop_i,           \* index of the worker stop() is at
    stop_deadline,    \* end of stop()'s join of the monitor thread
    cmd_maxsize,      \* maxsize of each WorkerInfo.cmd_queue
    status_maxsize,   \* maxsize of each WorkerInfo.status_queue
    \* ---- core/ffmpeg_recorder.py: the Recorder's frame buffers ----
    frame_queue,        \* len(self.frame_queue), the pre-roll ring
    write_queue,        \* self.write_queue.qsize()
    dropped_frames,     \* self.dropped_frames
    stop_writer_event,  \* self.stop_writer_event
    writer_pc,          \* position of the writer thread in _writer_loop
    af_pc,              \* position of the capture thread in add_frame
    \* ---- camera_worker.py: the recording loop of _main_stream_loop ----
    rl_now,                      \* time.time(), in seconds
    rl_recording,                \* self._recording
    rl_recording_start_time,     \* self._recording_start_time
    rl_motion_detected,          \* self.motion_detected
    rl_last_fps,                 \* self.last_fps
    rl_error_message,            \* self.error_message
    rl_stream_health_failures,   \* self.stream_health_failures
    rl_last_valid_stream_time,   \* self.last_valid_stream_time
    rl_last_stream_health_check, \* last_stream_health_check of the loop
    rl_last_motion_time,         \* when motion was last detected (observation)
    rl_low_fps_since,            \* since when last_fps has been low (observation)
    rl_ev,                       \* why the recording loop ended (observation)
    \* ---- core/ffmpeg_recorder.py: the shutdown of the encoder in stop_recording ----
    ff_stop_backed_up,           \* the write queue was backed up when stop_recording was called (observation)
    ff_shutdown,                 \* how the call shut the encoder down (observation)
    \* ---- camera_worker.py: _heartbeat_loop ----
    hb_last,                     \* the last heartbeat built, with its inputs
    \* ---- camera_worker.py: _sub_stream_loop and the main thread ----
    cp_now,                        \* time.time(), in half seconds
    cp_running,                    \* self.running
    cp_exited,                     \* the worker process has ended
    cp_sub_pc,                     \* position of the SUB stream thread
    cp_cap,                        \* cap is an opened VideoCapture
    cp_connection_failures,        \* connection_failures
    cp_consecutive_frame_failures, \* consecutive_frame_failures
    cp_last_valid_frame_time       \* last_valid_frame_time

supVars == <<now, workers, state, process, alive, last_heartbeat, restart_count,
             next_restart, status_queue, mon_pc, mon_i, current_time, mon_wake,
             mon_ev, unhealthy_since>>

recVars == <<ff_recording, ff_recording_failed, ff_restart_count, ff_process,
             ff_monitor_thread, ff_stop_monitor_event, encoders, ff_call_pc,
             ff_mon_pc>>

motVars == <<mt_now, md_state, md_ev, md_last_confirm, md_burst_confirms>>

wrkVars == <<wk_running, wk_recording, wk_recorder, wk_recording_event,
             wk_stop_recording_event, wk_motion_detected, wk_motion_start_time,
             wk_motion_trigger_sent, wk_last_motion_trigger_time, wk_ev, ctl_pc,
             ctl_inst, stp_pc, stp_inst, rc_lock, rc_recording>>

mainVars == <<configs, main_pc, sup_running, monitor_started, exit_code, stop_i,
              stop_deadline, cmd_maxsize, status_maxsize>>

bufVars == <<frame_queue, write_queue, dropped_frames, stop_writer_event, writer_pc,
             af_pc>>

loopVars == <<rl_now, rl_recording, rl_recording_start_time, rl_motion_detected,
              rl_last_fps, rl_error_message, rl_stream_health_failures,
              rl_last_valid_stream_time, rl_last_stream_health_check,
              rl_last_motion_time, rl_low_fps_since, rl_ev>>

stopVars == <<ff_stop_backed_up, ff_shutdown>>

hbVars == <<hb_last>>

capVars == <<cp_now, cp_running, cp_exited, cp_sub_pc, cp_cap, cp_connection_failures,
             cp_consecutive_frame_failures, cp_last_valid_frame_time>>

camVars == <<loopVars, hbVars, capVars>>

vars == <<supVars, recVars, motVars, wrkVars, mainVars, bufVars, camVars, stopVars>>

(***************************************************************************)
(* Supervisor: heartbeat messages                                          *)
(***************************************************************************)
\* error_message strings a worker puts in a heartbeat ("" = None)
ErrMax == "Max connection failures reached"
ErrNoUrl == "No valid camera URL"
ErrUnreachable == "Both MAIN and SUB streams unreachable"
ErrFrame == "Frame read failed"

\* asdict(HeartbeatMessage): the fields _process_status_messages reads
Heartbeats ==
    { [timestamp |-> TRUE, error_message |-> "", fps |-> 15],
      [timestamp |-> TRUE, error_message |-> "", fps |-> 0],
      [timestamp |-> TRUE, error_message |-> ErrMax, fps |-> 0],
      [timestamp |-> TRUE, error_message |-> ErrUnreachable, fps |-> 0],
      [timestamp |-> TRUE, error_message |-> ErrFrame, fps |-> 15] }

\* "Max connection failures" in error_msg or "No valid camera URL" in error_msg
IsCriticalError(error_msg) == error_msg \in {ErrMax, ErrNoUrl}

\* the worker record of camera w as one value
WorkerRec(w) ==
    [ state |-> state[w], process |-> process[w],
      last_heartbeat |-> last_heartbeat[w],
      restart_count |-> restart_count[w], next_restart |-> next_restart[w] ]

RECURSIVE Pow2(_)
Pow2(n) == IF n = 0 THEN 1 ELSE 2 * Pow2(n - 1)

\* variant of RestartDelay: the delay is not capped
RestartDelay_Uncapped(rc) == Pow2(rc)

\* delay = min(2 ** restart_count, max_restart_delay)
RestartDelay(rc) == Min(Pow2(rc), max_restart_delay)

\* _schedule_restart, called at time t
ScheduleRestart(rec, t) ==
    [rec EXCEPT !.next_restart = t + RestartDelay(rec.restart_count),
                !.restart_count = rec.restart_count + 1]

\* _start_worker_process at time t: ok = process.start() did not raise, pid = the new child
StartWorkerProcess(rec, t, ok, pid) ==
    IF ok
    THEN [rec EXCEPT !.process = pid, !.state = "running", !.last_heartbeat = t]
    ELSE ScheduleRestart([rec EXCEPT !.state = "crashed"], t)

\* _init_worker: the new record, then _start_worker_process
InitWorker(t, ok, pid) ==
    StartWorkerProcess(
        [ state |-> "starting", process |-> NoProcess, last_heartbeat |-> NoTime,
          restart_count |-> 0, next_restart |-> NoTime ], t, ok, pid)

\* variant of ProcessHeartbeat: any clean heartbeat with FPS > 0 clears restart_count
ProcessHeartbeat_ResetAlways(rec, msg, t) ==
    IF ~msg.timestamp THEN rec
    ELSE LET r1 == [rec EXCEPT !.last_heartbeat = t] IN
         IF msg.error_message # ""
         THEN IF IsCriticalError(msg.error_message) /\ r1.state = "running"
              THEN [r1 EXCEPT !.state = "unhealthy"]
              ELSE r1
         ELSE IF msg.fps > 0
              THEN [r1 EXCEPT !.state = IF @ = "unhealthy" THEN "running" ELSE @,
                              !.restart_count = 0]
              ELSE r1

\* the heartbeat branch of _process_status_messages for one message, at time t
ProcessHeartbeat(rec, msg, t) ==
    IF ~msg.timestamp THEN rec
    ELSE LET r1 == [rec EXCEPT !.last_heartbeat = t] IN
         IF msg.error_message # ""
         THEN IF IsCriticalError(msg.error_message) /\ r1.state = "running"
              THEN [r1 EXCEPT !.state = "unhealthy"]
              ELSE r1
         ELSE IF r1.state = "unhealthy" /\ msg.fps > 0
              THEN [r1 EXCEPT !.state = "running", !.restart_count = 0]
              ELSE r1

\* variant of HeartbeatOlderThan: the comparison is >=
HeartbeatOlderThan_Inclusive(rec, ct, k) ==
    rec.last_heartbeat # NoTime /\ ct - rec.last_heartbeat >= heartbeat_timeout * k

\* variant of HeartbeatOlderThan: every check uses the doubled timeout
HeartbeatOlderThan_Doubled(rec, ct, k) ==
    rec.last_heartbeat # NoTime /\ ct - rec.last_heartbeat > heartbeat_timeout * 2 * k

\* current_time - last_heartbeat > timedelta(seconds = heartbeat_timeout * k)
HeartbeatOlderThan(rec, ct, k) ==
    rec.last_heartbeat # NoTime /\ ct - rec.last_heartbeat > heartbeat_timeout * k

\* outcomes of _stop_worker on a live child: did it exit (on the stop command or
\* on terminate()) and how long the two bounded joins took
StopOutcomes ==
    { [exited |-> TRUE, elapsed |-> d] : d \in 0..(StopJoinTimeout + StopTerminateTimeout) }
    \cup { [exited |-> FALSE, elapsed |-> StopJoinTimeout + StopTerminateTimeout] }

\* _stop_worker: the record it leaves
StopWorker(rec) == [rec EXCEPT !.state = "stopping"]

\* _check_worker_health for one worker record.
\*   isAlive  = rec.process.is_alive(), ct = current_time of the iteration,
\*   t        = datetime.now() when the call starts,
\*   out      = outcome of _stop_worker if it is called on a live child,
\*   spawnOk, pid = outcome of process.start() if a re-spawn is attempted.
\* Result: the record, what was done, and the time the call took.
CheckWorkerHealth(rec, isAlive, ct, t, out, spawnOk, pid) ==
    IF rec.process # NoProcess /\ ~isAlive
    THEN [ rec |-> ScheduleRestart([rec EXCEPT !.state = "crashed"], t),
           ev |-> {"died"}, elapsed |-> 0 ]
    ELSE LET
        missed == HeartbeatOlderThan(rec, ct, 1)
        markUnhealthy == missed /\ rec.state = "running"
        unresponsive ==
            missed /\ rec.state = "unhealthy" /\ HeartbeatOlderThan(rec, ct, 2)
        persistent ==
            ~missed /\ rec.state = "unhealthy" /\ HeartbeatOlderThan(rec, ct, 3)
        stopCalled == unresponsive \/ persistent
        stopWaits == stopCalled /\ rec.process # NoProcess /\ isAlive
        t1 == IF stopWaits THEN t + out.elapsed ELSE t
        r1 == IF markUnhealthy THEN [rec EXCEPT !.state = "unhealthy"]
              ELSE IF stopCalled
                   THEN ScheduleRestart([StopWorker(rec) EXCEPT !.state = "crashed"], t1)
                   ELSE rec
        ev1 == IF markUnhealthy THEN {"unhealthy"}
               ELSE IF stopCalled
                    THEN {IF unresponsive THEN "unresponsive" ELSE "persistent"}
                         \cup (IF stopWaits /\ out.exited THEN {"killed"} ELSE {})
                    ELSE {}
        restartDue == r1.state = "crashed" /\ r1.next_restart # NoTime
                      /\ ct >= r1.next_restart
        r2 == IF restartDue THEN StartWorkerProcess(r1, t1, spawnOk, pid) ELSE r1
        ev2 == IF restartDue
               THEN ev1 \cup {IF spawnOk THEN "spawned" ELSE "spawn_failed"}
               ELSE ev1
      IN [ rec |-> r2, ev |-> ev2, elapsed |-> t1 - t ]


(***************************************************************************)
(* Recorder (core/ffmpeg_recorder.py)                                      *)
(***************************************************************************)
MonitorThreads == 1..MaxSessions
EncoderIds == 1..MaxEncoders

\* FFmpegRecorder.__init__
\* no stop_recording call has reached the shutdown of the encoder
NoShutdown == [how |-> "none"]

RecIdle ==
    /\ ff_recording = FALSE
    /\ ff_recording_failed = FALSE
    /\ ff_restart_count = 0
    /\ ff_process = NoProcess
    /\ ff_monitor_thread = 0
    /\ ff_stop_monitor_event = FALSE
    /\ encoders = [p \in EncoderIds |-> "none"]
    /\ ff_call_pc = "idle"
    /\ ff_mon_pc = [m \in MonitorThreads |-> "none"]
    /\ ff_stop_backed_up = FALSE
    /\ ff_shutdown = NoShutdown

(***************************************************************************)
(* Supervisor: state machine                                               *)
(***************************************************************************)
\* self.workers.values() in dict order
WorkerOrder == SelectSeq(CameraOrder, LAMBDA c : c \in workers)

\* the worker the monitor loop is at
MonW == WorkerOrder[mon_i]

\* pid given to the next child of camera w
NextPid(w) == (IF alive[w] = {} THEN 0 ELSE CHOOSE p \in alive[w] : \A q \in alive[w] : q <= p)
              + process[w] + 1

\* variant of SetRec: the state is written to every worker record
SetRec_Shared(w, rec) ==
    /\ state' = [c \in Cameras |-> rec.state]
    /\ process' = [process EXCEPT ![w] = rec.process]
    /\ last_heartbeat' = [last_heartbeat EXCEPT ![w] = rec.last_heartbeat]
    /\ restart_count' = [restart_count EXCEPT ![w] = rec.restart_count]
    /\ next_restart' = [next_restart EXCEPT ![w] = rec.next_restart]
    /\ unhealthy_since' = [unhealthy_since EXCEPT ![w] =
          IF rec.state # "unhealthy" THEN NoTime
          ELSE IF state[w] = "unhealthy" THEN @ ELSE now]

\* the worker record of camera w is replaced by rec
SetRec(w, rec) ==
    /\ state' = [state EXCEPT ![w] = rec.state]
    /\ process' = [process EXCEPT ![w] = rec.process]
    /\ last_heartbeat' = [last_heartbeat EXCEPT ![w] = rec.last_heartbeat]
    /\ restart_count' = [restart_count EXCEPT ![w] = rec.restart_count]
    /\ next_restart' = [next_restart EXCEPT ![w] = rec.next_restart]
    /\ unhealthy_since' = [unhealthy_since EXCEPT ![w] =
          IF rec.state # "unhealthy" THEN NoTime
          ELSE IF state[w] = "unhealthy" THEN @ ELSE now]

\* WorkerManager.start() at time 0: one record per enabled camera, each child
\* spawned (or process.start() raised), and the monitor thread started
SupInitAt(enabled, t0) ==
    /\ now = t0
    /\ workers = enabled
    /\ \E ok \in [Cameras -> BOOLEAN] :
         /\ state = [c \in Cameras |-> InitWorker(t0, ok[c] \/ c \notin workers, 1).state]
         /\ process = [c \in Cameras |->
                IF c \in workers THEN InitWorker(t0, ok[c], 1).process ELSE NoProcess]
         /\ alive = [c \in Cameras |-> IF c \in workers /\ ok[c] THEN {1} ELSE {}]
         /\ last_heartbeat = [c \in Cameras |->
                IF c \in workers THEN InitWorker(t0, ok[c], 1).last_heartbeat ELSE NoTime]
         /\ restart_count = [c \in Cameras |->
                IF c \in workers THEN InitWorker(t0, ok[c], 1).restart_count ELSE 0]
         /\ next_restart = [c \in Cameras |->
                IF c \in workers THEN InitWorker(t0, ok[c], 1).next_restart ELSE NoTime]
    /\ status_queue = [c \in Cameras |-> <<>>]
    /\ mon_pc = "sleep"
    /\ mon_i = 1
    /\ current_time = t0
    /\ mon_wake = t0
    /\ mon_ev = {}
    /\ unhealthy_since = [c \in Cameras |-> NoTime]

\* WorkerManager.start() at time 0
SupInit(enabled) == SupInitAt(enabled, 0)

\* time passes on the supervisor host, up to the time limit
TickTo(limit) ==
    /\ now < limit
    /\ now' = now + 1
    /\ UNCHANGED <<workers, state, process, alive, last_heartbeat, restart_count,
                   next_restart, status_queue, mon_pc, mon_i, current_time,
                   mon_wake, mon_ev, unhealthy_since>>

Tick == TickTo(MaxTime)

\* a live child of camera w puts a heartbeat on the status channel (put_nowait)
WorkerHeartbeat(w, msg) ==
    /\ w \in workers
    /\ alive[w] # {}
    /\ Len(status_queue[w]) < MaxQueue
    /\ status_queue' = [status_queue EXCEPT ![w] = Append(@, msg)]
    /\ UNCHANGED <<now, workers, state, process, alive, last_heartbeat,
                   restart_count, next_restart, mon_pc, mon_i, current_time,
                   mon_wake, mon_ev, unhealthy_since>>

\* a child process of camera w exits (crash, kill, or the worker's own exit)
WorkerExit(w, p) ==
    /\ p \in alive[w]
    /\ alive' = [alive EXCEPT ![w] = @ \ {p}]
    /\ UNCHANGED <<now, workers, state, process, last_heartbeat, restart_count,
                   next_restart, status_queue, mon_pc, mon_i, current_time,
                   mon_wake, mon_ev, unhealthy_since>>

\* _monitor_loop: the sleep is over, the next iteration reads current_time
MonitorBegin ==
    /\ monitor_started
    /\ sup_running
    /\ mon_pc = "sleep"
    /\ now >= mon_wake
    /\ current_time' = now
    /\ mon_i' = 1
    /\ IF workers = {}
       THEN mon_pc' = "sleep" /\ mon_wake' = now + MonitorInterval
       ELSE mon_pc' = "drain" /\ mon_wake' = mon_wake
    /\ UNCHANGED <<now, workers, state, process, alive, last_heartbeat,
                   restart_count, next_restart, status_queue, mon_ev, unhealthy_since>>

\* _process_status_messages: get_nowait() of one message and its handling
ProcessStatusMessage ==
    /\ mon_pc = "drain"
    /\ status_queue[MonW] # <<>>
    /\ SetRec(MonW, ProcessHeartbeat(WorkerRec(MonW), Head(status_queue[MonW]), now))
    /\ status_queue' = [status_queue EXCEPT ![MonW] = Tail(@)]
    /\ mon_ev' = IF state[MonW] = "unhealthy" /\ state'[MonW] = "running"
                 THEN {"recovered"} ELSE {}
    /\ UNCHANGED <<now, workers, alive, mon_pc, mon_i, current_time, mon_wake>>

\* _process_status_messages: the worker's channel is empty, on to the next worker
DrainNext ==
    /\ mon_pc = "drain"
    /\ status_queue[MonW] = <<>>
    /\ IF mon_i < Len(WorkerOrder)
       THEN mon_i' = mon_i + 1 /\ mon_pc' = "drain"
       ELSE mon_i' = 1 /\ mon_pc' = "check"
    /\ UNCHANGED <<now, workers, state, process, alive, last_heartbeat,
                   restart_count, next_restart, status_queue, current_time,
                   mon_wake, mon_ev, unhealthy_since>>

\* _monitor_loop: _check_worker_health of the next worker; after the last one
\* the loop sleeps for MonitorInterval
\* (the waits of _stop_worker end at the time limit at the latest)
CheckHealthTo(limit) ==
    /\ mon_pc = "check"
    /\ \E out \in StopOutcomes, spawnOk \in BOOLEAN :
         LET w == MonW
             res == CheckWorkerHealth(WorkerRec(w), process[w] \in alive[w],
                        current_time, now,
                        [out EXCEPT !.elapsed = Min(@, limit - now)],
                        spawnOk, NextPid(w))
         IN /\ SetRec(w, res.rec)
            /\ mon_ev' = res.ev
            /\ now' = now + res.elapsed
            /\ alive' = [alive EXCEPT ![w] =
                  (IF "killed" \in res.ev THEN @ \ {process[w]} ELSE @)
                  \cup (IF "spawned" \in res.ev THEN {res.rec.process} ELSE {})]
            /\ IF mon_i < Len(WorkerOrder)
               THEN mon_i' = mon_i + 1 /\ mon_pc' = "check" /\ mon_wake' = mon_wake
               ELSE mon_i' = 1 /\ mon_pc' = "sleep"
                    /\ mon_wake' = now' + MonitorInterval
    /\ UNCHANGED <<workers, status_queue, current_time>>

CheckHealth == CheckHealthTo(MaxTime)


(***************************************************************************)
(* Supervisor: main(), WorkerManager.start() and WorkerManager.stop()      *)
(***************************************************************************)
\* the camera configurations of the run: the threshold and the enabled flag
\* vary, every other field is valid
CameraConfigs == [threshold : {25, 300}, enabled : BOOLEAN]

\* ConfigValidator.validate_camera_config: no error is collected
ValidateCameraConfig(config) == 0 <= config.threshold /\ config.threshold <= 255

\* ConfigValidator.validate_all_cameras returns (does not raise)
ValidateAllCameras(cameras_config) ==
    \A c \in DOMAIN cameras_config : ValidateCameraConfig(cameras_config[c])

\* variant of EnabledCameras: the enabled flag is not looked at
EnabledCameras_All(cameras_config) == DOMAIN cameras_config

\* start(): the ids of the validated cameras with enabled = true
EnabledCameras(cameras_config) == {c \in DOMAIN cameras_config : cameras_config[c].enabled}

\* a valid configuration file in which exactly the given cameras are enabled
ConfigsFor(enabled) == [c \in Cameras |-> [threshold |-> 25, enabled |-> c \in enabled]]

\* main() after WorkerManager(): nothing started yet
MainIdle ==
    /\ configs = ConfigsFor({})
    /\ main_pc = "init"
    /\ sup_running = TRUE
    /\ monitor_started = FALSE
    /\ exit_code = NoExit
    /\ stop_i = 1
    /\ stop_deadline = NoTime
    /\ cmd_maxsize = [c \in Cameras |-> 0]
    /\ status_maxsize = [c \in Cameras |-> 0]

\* main() in its keep-alive loop after start() returned for the given cameras
MainStarted(enabled) ==
    /\ configs = ConfigsFor(enabled)
    /\ main_pc = "started"
    /\ sup_running = TRUE
    /\ monitor_started = TRUE
    /\ exit_code = NoExit
    /\ stop_i = 1
    /\ stop_deadline = NoTime
    /\ cmd_maxsize = [c \in Cameras |-> IF c \in enabled THEN CmdQueueMaxsize ELSE 0]
    /\ status_maxsize = [c \in Cameras |-> IF c \in enabled THEN StatusQueueMaxsize ELSE 0]

\* WorkerManager.start(): validation raises, or one _init_worker per enabled
\* camera (ok[c] = process.start() of camera c does not raise) and the
\* monitor thread is started
Start ==
    /\ main_pc = "init"
    /\ IF ~ValidateAllCameras(configs)
       THEN /\ main_pc' = "raised"
            /\ UNCHANGED <<supVars, configs, sup_running, monitor_started, exit_code,
                           stop_i, stop_deadline, cmd_maxsize, status_maxsize>>
       ELSE \E ok \in [Cameras -> BOOLEAN] :
            LET ids == EnabledCameras(configs)
                rec(c) == InitWorker(now, ok[c], 1)
            IN /\ workers' = ids
               /\ state' = [c \in Cameras |-> IF c \in ids THEN rec(c).state ELSE state[c]]
               /\ process' = [c \in Cameras |->
                      IF c \in ids THEN rec(c).process ELSE process[c]]
               /\ alive' = [c \in Cameras |-> IF c \in ids /\ ok[c] THEN {1} ELSE {}]
               /\ last_heartbeat' = [c \in Cameras |->
                      IF c \in ids THEN rec(c).last_heartbeat ELSE last_heartbeat[c]]
               /\ restart_count' = [c \in Cameras |->
                      IF c \in ids THEN rec(c).restart_count ELSE restart_count[c]]
               /\ next_restart' = [c \in Cameras |->
                      IF c \in ids THEN rec(c).next_restart ELSE next_restart[c]]
               /\ cmd_maxsize' = [c \in Cameras |-> IF c \in ids THEN CmdQueueMaxsize ELSE 0]
               /\ status_maxsize' =
                      [c \in Cameras |-> IF c \in ids THEN StatusQueueMaxsize ELSE 0]
               /\ monitor_started' = TRUE
               /\ mon_pc' = "sleep"
               /\ mon_wake' = now
               /\ main_pc' = "started"
               /\ UNCHANGED <<now, status_queue, mon_i, current_time, mon_ev,
                              unhealthy_since, configs, sup_running, exit_code,
                              stop_i, stop_deadline>>

\* WorkerManager.stop() is entered: from main()'s finally after start()
\* raised, or from the signal handler / KeyboardInterrupt while running
ManagerStop ==
    /\ main_pc \in {"raised", "started"}
    /\ sup_running' = FALSE
    /\ stop_i' = 1
    /\ main_pc' = "stop_workers"
    /\ UNCHANGED <<supVars, configs, monitor_started, exit_code, stop_deadline,
                   cmd_maxsize, status_maxsize>>

\* stop(): _stop_worker of the next worker record
ManagerStopWorker ==
    /\ main_pc = "stop_workers"
    /\ stop_i <= Len(WorkerOrder)
    /\ \E out \in StopOutcomes :
         LET w == WorkerOrder[stop_i]
             waits == process[w] # NoProcess /\ process[w] \in alive[w]
         IN /\ SetRec(w, StopWorker(WorkerRec(w)))
            /\ now' = IF waits THEN now + Min(out.elapsed, MaxTime - now) ELSE now
            /\ alive' = [alive EXCEPT ![w] =
                  IF waits /\ out.exited THEN @ \ {process[w]} ELSE @]
    /\ stop_i' = stop_i + 1
    /\ UNCHANGED <<workers, status_queue, mon_pc, mon_i, current_time, mon_wake, mon_ev,
                   configs, main_pc, sup_running, monitor_started, exit_code,
                   stop_deadline, cmd_maxsize, status_maxsize>>

\* stop(): every worker was stopped; join the monitor thread if it is alive
ManagerStopJoin ==
    /\ main_pc = "stop_workers"
    /\ stop_i > Len(WorkerOrder)
    /\ IF monitor_started /\ mon_pc # "exited"
       THEN main_pc' = "stop_join" /\ stop_deadline' = now + MonitorJoinTimeout
       ELSE main_pc' = "stopped" /\ stop_deadline' = stop_deadline
    /\ UNCHANGED <<supVars, configs, sup_running, monitor_started, exit_code, stop_i,
                   cmd_maxsize, status_maxsize>>

\* stop(): the join of the monitor thread returns and stop() returns
ManagerStopReturn ==
    /\ main_pc = "stop_join"
    /\ (mon_pc = "exited" \/ now >= stop_deadline)
    /\ main_pc' = "stopped"
    /\ UNCHANGED <<supVars, configs, sup_running, monitor_started, exit_code, stop_i,
                   stop_deadline, cmd_maxsize, status_maxsize>>

\* _monitor_loop: the loop condition self.running is false, the thread ends
MonitorExit ==
    /\ monitor_started
    /\ ~sup_running
    /\ mon_pc = "sleep"
    /\ now >= mon_wake
    /\ mon_pc' = "exited"
    /\ UNCHANGED <<now, workers, state, process, alive, last_heartbeat,
                   restart_count, next_restart, status_queue, mon_i, current_time,
                   mon_wake, mon_ev, unhealthy_since>>

\* main() returns after its finally block, or the signal handler calls
\* sys.exit(0): the process ends and the daemon monitor thread with it
ProcessExit ==
    /\ main_pc = "stopped"
    /\ main_pc' = "exited"
    /\ exit_code' = 0
    /\ mon_pc' = "exited"
    /\ UNCHANGED <<now, workers, state, process, alive, last_heartbeat,
                   restart_count, next_restart, status_queue, mon_i, current_time,
                   mon_wake, mon_ev, unhealthy_since, configs, sup_running,
                   monitor_started, stop_i, stop_deadline, cmd_maxsize, status_maxsize>>

(***************************************************************************)
(* Supervisor: properties                                                  *)
(***************************************************************************)
\* the step is the _check_worker_health call for worker w
CheckStep(w) ==
    /\ mon_pc = "check"
    /\ MonW = w
    /\ (mon_i' # mon_i \/ mon_pc' # "check")

\* the step is _process_status_messages handling a clean heartbeat (no error
\* message, FPS > 0) of worker w
CleanHeartbeatStep(w) ==
    /\ mon_pc = "drain"
    /\ MonW = w
    /\ status_queue[w] # <<>>
    /\ status_queue'[w] = Tail(status_queue[w])
    /\ Head(status_queue[w]).timestamp
    /\ Head(status_queue[w]).error_message = ""
    /\ Head(status_queue[w]).fps > 0

\* C1 (as claimed): a health check that finds the worker Crashed with its
\* scheduled restart time passed re-spawns it (calls _start_worker_process).
C1_RespawnWhenDue ==
    [][\A w \in workers :
         (CheckStep(w) /\ state[w] = "crashed" /\ next_restart[w] # NoTime
          /\ current_time >= next_restart[w])
         => (mon_ev' \cap {"spawned", "spawn_failed"} # {})]_vars

\* C2 (as claimed): a health check that runs while the worker is already
\* Crashed and attempts no re-spawn leaves restart_count and next_restart as
\* they are: one crash schedules exactly one restart.
C2_SingleSchedulePerCrash ==
    [][\A w \in workers :
         (CheckStep(w) /\ state[w] = "crashed"
          /\ mon_ev' \cap {"spawned", "spawn_failed"} = {})
         => (restart_count'[w] = restart_count[w]
             /\ next_restart'[w] = next_restart[w])]_vars

\* C6: a health check of a worker whose child is alive marks it Unhealthy if
\* it is Running and its last heartbeat is older than heartbeat_timeout; if
\* it is Unhealthy and the last heartbeat is older than 2 x heartbeat_timeout
\* the check stops the worker, marks it Crashed and schedules a restart.
C6_MissedHeartbeat ==
    [][\A w \in workers :
         (CheckStep(w) /\ process[w] \in alive[w] /\ last_heartbeat[w] # NoTime)
         => /\ (state[w] = "running"
                /\ current_time - last_heartbeat[w] > heartbeat_timeout)
               => state'[w] = "unhealthy"
            /\ (state[w] = "unhealthy"
                /\ current_time - last_heartbeat[w] > 2 * heartbeat_timeout)
               => /\ state'[w] = "crashed"
                  /\ "unresponsive" \in mon_ev'
                  /\ restart_count'[w] = restart_count[w] + 1
                  /\ next_restart'[w] > current_time]_vars

\* C6 witness: a worker has been stopped as unresponsive, is Crashed and has
\* a restart scheduled.
C6_Witness ==
    \E w \in workers :
        /\ "unresponsive" \in mon_ev
        /\ state[w] = "crashed"
        /\ next_restart[w] # NoTime

\* C7 (as claimed): a health check of a Running worker whose heartbeat age
\* equals heartbeat_timeout marks it Unhealthy.
C7_BoundaryUnhealthy ==
    [][\A w \in workers :
         (CheckStep(w) /\ process[w] \in alive[w] /\ state[w] = "running"
          /\ last_heartbeat[w] # NoTime
          /\ current_time - last_heartbeat[w] = heartbeat_timeout)
         => state'[w] = "unhealthy"]_vars

\* C7 (amended): a health check of a Running worker whose heartbeat age
\* equals heartbeat_timeout leaves it Running (neither Unhealthy nor
\* Crashed); the worker is marked Unhealthy only by a check at which the age
\* exceeds the timeout.
C7_BoundaryStaysRunning ==
    [][\A w \in workers :
         (CheckStep(w) /\ process[w] \in alive[w] /\ state[w] = "running"
          /\ last_heartbeat[w] # NoTime)
         => /\ current_time - last_heartbeat[w] = heartbeat_timeout
               => state'[w] = "running"
            /\ state'[w] = "unhealthy"
               => current_time - last_heartbeat[w] > heartbeat_timeout]_vars

\* C7 witness: a check ran at heartbeat age = heartbeat_timeout and the worker
\* is still Running with its child alive.
C7_Witness ==
    \E w \in workers :
        /\ mon_pc = "sleep"
        /\ mon_ev = {}
        /\ state[w] = "running"
        /\ process[w] \in alive[w]
        /\ last_heartbeat[w] # NoTime
        /\ current_time - last_heartbeat[w] = heartbeat_timeout

\* C8: restart_count is never negative; a clean heartbeat processed for an
\* Unhealthy worker sets it to 0 and moves the worker to Running; and no
\* other step of the supervisor decreases restart_count.
C8_RestartCountReset ==
    /\ [](\A w \in workers : restart_count[w] >= 0)
    /\ [][\A w \in workers :
            /\ (CleanHeartbeatStep(w) /\ state[w] = "unhealthy")
               => (restart_count'[w] = 0 /\ state'[w] = "running")
            /\ restart_count'[w] < restart_count[w]
               => (CleanHeartbeatStep(w) /\ state[w] = "unhealthy")]_vars

\* C8 witness: a recovery heartbeat has just been processed for a worker that
\* had a restart scheduled before: it is Running with restart_count 0.
C8_Witness ==
    \E w \in workers :
        /\ "recovered" \in mon_ev
        /\ state[w] = "running"
        /\ restart_count[w] = 0
        /\ next_restart[w] # NoTime

\* C9 (as claimed): a clean heartbeat (no error message, FPS > 0) processed
\* for a re-spawned worker (Running, child alive, restart_count >= 1) resets
\* restart_count to 0.
C9_ResetAfterRespawn ==
    [][\A w \in workers :
         (CleanHeartbeatStep(w) /\ state[w] = "running"
          /\ process[w] \in alive[w] /\ restart_count[w] >= 1)
         => restart_count'[w] = 0]_vars

\* C10: every step that schedules a restart increments restart_count by
\* exactly 1 and sets next_restart = now + min(2^restart_count, max_restart_delay)
\* with the count before the step, so no delay exceeds max_restart_delay.
C10_Backoff ==
    [][\A w \in workers :
         (restart_count'[w] > restart_count[w] \/ next_restart'[w] # next_restart[w])
         => /\ restart_count'[w] = restart_count[w] + 1
            /\ next_restart'[w] =
                 now' + (IF 2^restart_count[w] < max_restart_delay
                         THEN 2^restart_count[w] ELSE max_restart_delay)
            /\ next_restart'[w] - now' <= max_restart_delay]_vars

\* C10 witness: the fourth consecutive restart has just been scheduled, with
\* the capped delay (2^3 = 8 > max_restart_delay).
C10_Witness ==
    \E w \in workers :
        /\ mon_pc = "sleep"
        /\ restart_count[w] = 4
        /\ mon_wake = now + MonitorInterval
        /\ next_restart[w] = now + max_restart_delay

\* the step is _process_status_messages handling the heartbeat at the head
\* of worker w's status channel
HeartbeatStep(w) ==
    /\ mon_pc = "drain"
    /\ MonW = w
    /\ status_queue[w] # <<>>
    /\ status_queue'[w] = Tail(status_queue[w])
    /\ Head(status_queue[w]).timestamp

\* C11 (as claimed): a heartbeat processed for a Running worker moves it to
\* Unhealthy if its error_message is critical (Max connection failures, No
\* valid camera URL, or both streams unreachable), and leaves the state as it
\* is if it carries any other error message.
C11_CriticalErrorUnhealthy ==
    [][\A w \in workers :
         (HeartbeatStep(w) /\ state[w] = "running"
          /\ Head(status_queue[w]).error_message # "")
         => IF Head(status_queue[w]).error_message
                 \in {ErrMax, ErrNoUrl, ErrUnreachable}
            THEN state'[w] = "unhealthy"
            ELSE state'[w] = "running"]_vars

\* C12 (as claimed): a health check of a worker that has been Unhealthy for
\* longer than 3 x heartbeat_timeout, whose child is alive and whose
\* heartbeats keep arriving (the last one is not older than
\* heartbeat_timeout), stops the worker, marks it Crashed and schedules a
\* restart.
C12_PersistentUnhealthyRestart ==
    [][\A w \in workers :
         (CheckStep(w) /\ state[w] = "unhealthy" /\ process[w] \in alive[w]
          /\ unhealthy_since[w] # NoTime
          /\ current_time - unhealthy_since[w] > 3 * heartbeat_timeout
          /\ last_heartbeat[w] # NoTime
          /\ current_time - last_heartbeat[w] <= heartbeat_timeout)
         => /\ mon_ev' \cap {"persistent", "unresponsive"} # {}
            /\ restart_count'[w] = restart_count[w] + 1
            /\ next_restart'[w] # next_restart[w]]_vars

\* C13 (as claimed): a worker's state changes only along the lifecycle:
\* Starting -> Running when a heartbeat is processed, Running -> Unhealthy,
\* Unhealthy -> Running when a heartbeat is processed, Running or Unhealthy ->
\* Crashed, and Crashed -> Starting at a health check with the restart due;
\* in particular never directly from Crashed to Running.
C13_LifecycleTransitions ==
    [][\A w \in workers :
         state'[w] # state[w]
         => \/ /\ state[w] = "starting" /\ state'[w] = "running"
               /\ HeartbeatStep(w)
            \/ state[w] = "running" /\ state'[w] = "unhealthy"
            \/ /\ state[w] = "unhealthy" /\ state'[w] = "running"
               /\ HeartbeatStep(w)
            \/ state[w] \in {"running", "unhealthy"} /\ state'[w] = "crashed"
            \/ /\ state[w] = "crashed" /\ state'[w] = "starting"
               /\ CheckStep(w)
               /\ current_time >= next_restart[w]]_vars

\* C14: the monitor's handling of one worker (its heartbeats, its crash, its
\* missed heartbeats, its stop and its restart) leaves the record and the
\* child process of every other worker as they are: a worker's record changes
\* only in the steps that handle that worker.
C14_WorkerIsolation ==
    [][\A w \in workers :
         /\ (CheckStep(w) \/ HeartbeatStep(w))
            => \A o \in workers \ {w} :
                  /\ WorkerRec(o)' = WorkerRec(o)
                  /\ alive'[o] = alive[o]
         /\ WorkerRec(w)' # WorkerRec(w) => (CheckStep(w) \/ HeartbeatStep(w))]_vars

\* C14 witness: with two workers, cam1's child has died and the monitor has
\* marked cam1 Crashed and checked cam2, which is Running with its child alive.
C14_Witness ==
    /\ workers = {"cam1", "cam2"}
    /\ mon_pc = "sleep"
    /\ state["cam1"] = "crashed"
    /\ process["cam1"] # NoProcess
    /\ process["cam1"] \notin alive["cam1"]
    /\ restart_count["cam1"] >= 1
    /\ state["cam2"] = "running"
    /\ process["cam2"] \in alive["cam2"]
    /\ restart_count["cam2"] = 0

\* C15 (as claimed): if any camera configuration fails validation (for
\* example threshold = 300), start() raises before any worker record is
\* created or any child is spawned, the monitor thread is not started, and
\* the application exits with a non-zero code.
C15_InvalidConfigAbortsStartup ==
    ~ValidateAllCameras(configs)
    => /\ main_pc # "started"
       /\ workers = {}
       /\ \A c \in Cameras : alive[c] = {} /\ process[c] = NoProcess
       /\ ~monitor_started
       /\ main_pc = "exited" => exit_code \notin {NoExit, 0}

C17_StoppedChildNotAlive ==
    [][\A w \in workers :
         (CheckStep(w) /\ process[w] \in alive[w]
          /\ mon_ev' \cap {"unresponsive", "persistent"} # {})
         => process[w] \notin alive'[w]]_vars

\* stop() has returned and every worker record is in state Stopping
AllStoppingAfterStop ==
    main_pc' \in {"stopped", "exited"} => \A w \in workers : state'[w] = "stopping"

\* while or after stop() runs, a health check leaves a stopped worker's
\* record as it is: not marked Crashed, no restart scheduled
NoCrashOfStopped ==
    \A w \in workers :
        (~sup_running /\ CheckStep(w) /\ state[w] = "stopping")
        => WorkerRec(w)' = WorkerRec(w)

\* while or after stop() runs, no health check spawns a worker process
NoSpawnInShutdown ==
    \A w \in workers :
        (~sup_running /\ CheckStep(w)) => (alive'[w] \subseteq alive[w])

\* C18 (as claimed): after stop() returns every worker record is in state
\* Stopping and stays there; the monitor loop running concurrently with
\* stop() neither marks a stopped worker Crashed, nor schedules a restart
\* for it, nor spawns a worker process during or after shutdown.
C18_ShutdownIsTerminal ==
    [][AllStoppingAfterStop /\ NoCrashOfStopped /\ NoSpawnInShutdown]_vars

(***************************************************************************)
(* Recorder: core/ffmpeg_recorder.py, state machine                        *)
(***************************************************************************)
\* the encoder subprocesses that are running
AliveEncoders == { p \in EncoderIds : encoders[p] = "alive" }

\* number of encoder subprocesses launched so far
Launched == Cardinality({ p \in EncoderIds : encoders[p] # "none" })

\* the calling thread is in neither start_recording nor stop_recording
\* and calls start_recording: the whole body runs under self.lock.
\*   ok = subprocess.Popen did not raise
StartRecording(ok) ==
    /\ ff_call_pc = "idle"
    /\ \E m \in MonitorThreads : ff_mon_pc[m] = "none"
    /\ Launched < MaxEncoders
    /\ IF ff_recording
       THEN UNCHANGED recVars
       ELSE /\ ff_recording_failed' = FALSE
            /\ ff_restart_count' = 0
            /\ IF ok
               THEN LET m == CHOOSE t \in MonitorThreads : ff_mon_pc[t] = "none"
                               /\ \A u \in MonitorThreads : ff_mon_pc[u] = "none" => t <= u
                    IN /\ ff_process' = Launched + 1
                       /\ encoders' = [encoders EXCEPT ![Launched + 1] = "alive"]
                       /\ ff_stop_monitor_event' = FALSE
                       /\ ff_monitor_thread' = m
                       /\ ff_mon_pc' = [ff_mon_pc EXCEPT ![m] = "wait"]
                       /\ ff_recording' = TRUE
               ELSE UNCHANGED <<ff_process, encoders, ff_stop_monitor_event,
                                ff_monitor_thread, ff_mon_pc, ff_recording>>
            /\ UNCHANGED ff_call_pc

\* variant of StopRecordingProceeds: the call goes on whatever the flag
StopRecordingProceeds_Always(recording) == TRUE

\* stop_recording, first block under self.lock: "if not self.recording:
\* return"; the call goes on only if the Recorder is recording
StopRecordingProceeds(recording) == recording

\* stop_recording, first block under self.lock: return if not recording,
\* else clear the flag
StopRecordingEnter ==
    /\ ff_call_pc = "idle"
    /\ IF ~StopRecordingProceeds(ff_recording)
       THEN UNCHANGED <<recVars, stopVars>>
       ELSE /\ ff_recording' = FALSE
            /\ ff_call_pc' = "stop_monitor"
            /\ ff_stop_backed_up' = (write_queue > write_queue_backup)
            /\ UNCHANGED ff_shutdown
            /\ UNCHANGED <<ff_recording_failed, ff_restart_count, ff_process,
                           ff_monitor_thread, ff_stop_monitor_event, encoders,
                           ff_mon_pc>>

\* stop_recording: if self.monitor_thread: stop_monitor_event.set()
StopRecordingSetEvent ==
    /\ ff_call_pc = "stop_monitor"
    /\ IF ff_monitor_thread # 0
       THEN /\ ff_stop_monitor_event' = TRUE
            /\ ff_call_pc' = "stop_join"
       ELSE /\ ff_call_pc' = "stop_process"
            /\ UNCHANGED ff_stop_monitor_event
    /\ UNCHANGED <<ff_recording, ff_recording_failed, ff_restart_count, ff_process,
                   ff_monitor_thread, encoders, ff_mon_pc>>

\* stop_recording: monitor_thread.join(timeout=3.0) returns, because the
\* thread ended or because the timeout ran out; then monitor_thread = None
StopRecordingJoinMonitor(timedOut) ==
    /\ ff_call_pc = "stop_join"
    /\ timedOut \/ ff_mon_pc[ff_monitor_thread] = "done"
    /\ ff_monitor_thread' = 0
    /\ ff_call_pc' = "stop_process"
    /\ UNCHANGED <<ff_recording, ff_recording_failed, ff_restart_count, ff_process,
                   ff_stop_monitor_event, encoders, ff_mon_pc>>

\* _should_force_immediate_shutdown: no process or no stdin, rc > 0,
\* write_queue.qsize() > 50, or stdin not ready for writing (a failing test
\* counts as not ready)
ShouldForceImmediateShutdown(has_stdin, rc, qsize, stdin_ready) ==
    \/ ~has_stdin
    \/ rc > 0
    \/ qsize > write_queue_backup
    \/ ~stdin_ready

\* stop_recording, "Enhanced FFmpeg shutdown": what is done with the encoder
ShutdownMethod(running, force_immediate, rc, qsize, stdin_ready) ==
    IF ~running THEN "already_terminated"
    ELSE IF force_immediate
            \/ ShouldForceImmediateShutdown(TRUE, rc, qsize, stdin_ready)
    THEN "immediate"
    ELSE "graceful"

\* stop_recording: if self.process and self.process.poll() is None, shut the
\* encoder down: _force_immediate_shutdown (terminate, kill after 2 s) or
\* _attempt_graceful_shutdown ('q', then terminate and kill on a timeout or
\* an error); every path ends with the process gone.
\*   force_immediate = the caller's argument
\*   stdin_ready = select() reports the encoder's stdin writable
\*   qsize = write_queue.qsize() after _drain_write_queue
StopRecordingShutdown(force_immediate, stdin_ready, qsize) ==
    /\ ff_call_pc = "stop_process"
    /\ LET running == ff_process # NoProcess /\ encoders[ff_process] = "alive"
       IN /\ encoders' = IF running
                         THEN [encoders EXCEPT ![ff_process] = "stopped"]
                         ELSE encoders
          /\ ff_shutdown' = [how |-> ShutdownMethod(running, force_immediate,
                                        ff_restart_count, qsize, stdin_ready),
                             force_immediate |-> force_immediate,
                             stdin_ready |-> stdin_ready]
    /\ ff_call_pc' = "stop_finally"
    /\ UNCHANGED <<ff_recording, ff_recording_failed, ff_restart_count, ff_process,
                   ff_monitor_thread, ff_stop_monitor_event, ff_mon_pc,
                   ff_stop_backed_up>>

\* stop_recording, finally block: self.process = None, recording_failed = False
StopRecordingFinally ==
    /\ ff_call_pc = "stop_finally"
    /\ ff_process' = NoProcess
    /\ ff_recording_failed' = FALSE
    /\ ff_call_pc' = "idle"
    /\ ff_stop_backed_up' = FALSE
    /\ ff_shutdown' = NoShutdown
    /\ UNCHANGED <<ff_recording, ff_restart_count, ff_monitor_thread,
                   ff_stop_monitor_event, encoders, ff_mon_pc>>

\* a running encoder subprocess exits: code 0 or a failure
EncoderExit(p, how) ==
    /\ encoders[p] = "alive"
    /\ encoders' = [encoders EXCEPT ![p] = how]
    /\ UNCHANGED <<ff_recording, ff_recording_failed, ff_restart_count, ff_process,
                   ff_monitor_thread, ff_stop_monitor_event, ff_call_pc, ff_mon_pc>>

\* _monitor_ffmpeg_process: stop_monitor_event.wait(2.0) returns
MonitorWait(m) ==
    /\ ff_mon_pc[m] = "wait"
    /\ ff_mon_pc' = [ff_mon_pc EXCEPT ![m] =
                        IF ff_stop_monitor_event THEN "mark" ELSE "poll"]
    /\ UNCHANGED <<ff_recording, ff_recording_failed, ff_restart_count, ff_process,
                   ff_monitor_thread, ff_stop_monitor_event, encoders, ff_call_pc>>

\* what the monitor loop does after self.process.poll()
MonitorDecision(proc, status, rc, stopping) ==
    IF proc = NoProcess THEN "mark"
    ELSE IF status = "alive" THEN "wait"
    ELSE IF status = "exit0" THEN "mark"
    ELSE IF rc < max_restarts /\ ~stopping THEN "restart_kill"
    ELSE "mark"

\* _monitor_ffmpeg_process: one poll of the encoder and the decision
MonitorPoll(m) ==
    /\ ff_mon_pc[m] = "poll"
    /\ ff_mon_pc' = [ff_mon_pc EXCEPT ![m] =
          MonitorDecision(ff_process,
                          IF ff_process = NoProcess THEN "none" ELSE encoders[ff_process],
                          ff_restart_count, ff_stop_monitor_event)]
    /\ UNCHANGED <<ff_recording, ff_recording_failed, ff_restart_count, ff_process,
                   ff_monitor_thread, ff_stop_monitor_event, encoders, ff_call_pc>>

\* _restart_ffmpeg_process: self.process.kill() and wait(timeout=3.0)
MonitorRestartKill(m) ==
    /\ ff_mon_pc[m] = "restart_kill"
    /\ encoders' = IF ff_process # NoProcess /\ encoders[ff_process] = "alive"
                   THEN [encoders EXCEPT ![ff_process] = "stopped"]
                   ELSE encoders
    /\ ff_mon_pc' = [ff_mon_pc EXCEPT ![m] = "restart_spawn"]
    /\ UNCHANGED <<ff_recording, ff_recording_failed, ff_restart_count, ff_process,
                   ff_monitor_thread, ff_stop_monitor_event, ff_call_pc>>

\* _restart_ffmpeg_process: _start_ffmpeg_process, then restart_count += 1 and
\* back to monitoring; on failure the monitor loop breaks
MonitorRestartSpawn(m, ok) ==
    /\ ff_mon_pc[m] = "restart_spawn"
    /\ Launched < MaxEncoders
    /\ IF ok
       THEN /\ ff_process' = Launched + 1
            /\ encoders' = [encoders EXCEPT ![Launched + 1] = "alive"]
            /\ ff_restart_count' = ff_restart_count + 1
            /\ ff_mon_pc' = [ff_mon_pc EXCEPT ![m] = "wait"]
       ELSE /\ ff_mon_pc' = [ff_mon_pc EXCEPT ![m] = "mark"]
            /\ UNCHANGED <<ff_process, encoders, ff_restart_count>>
    /\ UNCHANGED <<ff_recording, ff_recording_failed, ff_monitor_thread,
                   ff_stop_monitor_event, ff_call_pc>>

\* _monitor_ffmpeg_process, after the loop: under self.lock, if recording then
\* recording_failed = True
MonitorMarkFailed(m) ==
    /\ ff_mon_pc[m] = "mark"
    /\ ff_recording_failed' = (ff_recording \/ ff_recording_failed)
    /\ ff_mon_pc' = [ff_mon_pc EXCEPT ![m] = "done"]
    /\ UNCHANGED <<ff_recording, ff_restart_count, ff_process, ff_monitor_thread,
                   ff_stop_monitor_event, encoders, ff_call_pc>>

\* is_recording_healthy, under self.lock: False if not recording, if
\* recording_failed or without a process; else process.poll() is None
IsRecordingHealthy ==
    /\ ff_recording
    /\ ~ff_recording_failed
    /\ ff_process # NoProcess
    /\ encoders[ff_process] = "alive"

(***************************************************************************)
(* Recorder: the pre-roll ring, the write queue and the writer thread      *)
(***************************************************************************)
\* __init__: queue_high_watermark = 800 and queue_critical_threshold = 950 of
\* maxsize 1000, and max_drain = 200 of _emergency_queue_cleanup, in proportion
queue_high_watermark == (WriteQueueMaxsize * 4) \div 5
queue_critical_threshold == (WriteQueueMaxsize * 19) \div 20
max_drain == Max(1, WriteQueueMaxsize \div 5)

\* FFmpegRecorder.__init__: both buffers empty, no writer thread
BufIdle ==
    /\ frame_queue = 0
    /\ write_queue = 0
    /\ dropped_frames = 0
    /\ stop_writer_event = FALSE
    /\ writer_pc = "none"
    /\ af_pc = "idle"

\* collections.deque(maxlen).append on a ring of n frames: at maxlen the
\* oldest frame is discarded
RingAppend(n) == IF n < PreRollCapacity THEN n + 1 ELSE PreRollCapacity

\* variant of PutNowait: the queue takes the frame whatever its size
PutNowait_NoFull(q) == [size |-> q + 1, full |-> FALSE]

\* queue.Queue(maxsize).put_nowait on a queue of q frames: queue.Full is
\* raised at maxsize
PutNowait(q) ==
    IF q < WriteQueueMaxsize THEN [size |-> q + 1, full |-> FALSE]
    ELSE [size |-> q, full |-> TRUE]

\* _start_ffmpeg_process: put_nowait of each of the n frames of the pre-roll
\* ring; queue.Full is only logged
RECURSIVE PrimeQueue(_, _)
PrimeQueue(q, n) == IF n = 0 THEN q ELSE PrimeQueue(PutNowait(q).size, n - 1)

\* _should_add_frame_to_queue, up to the queue size check
ShouldAddFrameToQueue ==
    /\ ~ff_recording_failed
    /\ ff_process # NoProcess
    /\ encoders[ff_process] = "alive"
    /\ write_queue < queue_high_watermark

\* add_frame, under self.lock: the frame is appended to the pre-roll ring; if
\* recording is active and healthy, _should_add_frame_to_queue decides.
\* maintenance = the periodic maintenance is due in this call: with a dead
\* writer thread it takes self.lock, which add_frame already holds.
AddFrameCheck(maintenance) ==
    /\ af_pc = "idle"
    /\ frame_queue' = RingAppend(frame_queue)
    /\ af_pc' = IF ff_recording /\ ~ff_recording_failed /\ ShouldAddFrameToQueue
                THEN IF maintenance /\ writer_pc = "none" THEN "blocked" ELSE "put"
                ELSE "idle"
    /\ UNCHANGED <<recVars, write_queue, dropped_frames, stop_writer_event, writer_pc>>

\* variant of DroppedAfterPut: a dropped frame is counted down
DroppedAfterPut_CountDown(dropped, full, drained) ==
    dropped - (IF full THEN 1 ELSE 0) - drained

\* add_frame on queue.Full: self.dropped_frames += 1, and
\* _emergency_queue_cleanup: self.dropped_frames += drained
DroppedAfterPut(dropped, full, drained) ==
    dropped + (IF full THEN 1 ELSE 0) + drained

\* reset_dropped_frames: self.dropped_frames = 0
ResetDroppedFrames ==
    /\ dropped_frames > 0
    /\ dropped_frames' = 0
    /\ UNCHANGED <<recVars, frame_queue, write_queue, stop_writer_event, writer_pc,
                   af_pc>>

\* add_frame, still under self.lock: write_queue.put_nowait; on queue.Full
\* the frame is dropped and, at the critical threshold,
\* _emergency_queue_cleanup sets recording_failed and drains up to max_drain
AddFramePut ==
    /\ af_pc = "put"
    /\ af_pc' = "idle"
    /\ LET put == PutNowait(write_queue)
           emergency == put.full /\ put.size >= queue_critical_threshold
           drained == IF emergency THEN Min(max_drain, put.size) ELSE 0
           dropped == DroppedAfterPut(dropped_frames, put.full, drained)
       IN /\ dropped <= MaxDropped
          /\ write_queue' = put.size - drained
          /\ dropped_frames' = dropped
          /\ ff_recording_failed' = (ff_recording_failed \/ emergency)
    /\ UNCHANGED <<ff_recording, ff_restart_count, ff_process, ff_monitor_thread,
                   ff_stop_monitor_event, encoders, ff_call_pc, ff_mon_pc,
                   frame_queue, stop_writer_event, writer_pc>>

\* the buffer part of start_recording: when the encoder was launched the
\* pre-roll ring is copied to the write queue, stop_writer_event is cleared
\* and the writer thread is started
BufStartRecording ==
    IF ~ff_recording /\ ff_recording'
    THEN /\ write_queue' = PrimeQueue(write_queue, frame_queue)
         /\ stop_writer_event' = FALSE
         /\ writer_pc' = "loop"
         /\ UNCHANGED <<frame_queue, dropped_frames, af_pc>>
    ELSE UNCHANGED bufVars

\* the buffer part of an encoder restart: _start_ffmpeg_process copies the
\* pre-roll ring to the write queue again
BufRestart ==
    /\ write_queue' = IF ff_process' # ff_process
                      THEN PrimeQueue(write_queue, frame_queue) ELSE write_queue
    /\ UNCHANGED <<frame_queue, dropped_frames, stop_writer_event, writer_pc, af_pc>>

\* stop_recording after the monitor join: stop_writer_event.set()
BufStopWriter ==
    /\ stop_writer_event' = (stop_writer_event \/ writer_pc # "none")
    /\ UNCHANGED <<frame_queue, write_queue, dropped_frames, writer_pc, af_pc>>

\* variant of BufStopDrain: nothing is drained
BufStopDrain_None ==
    /\ writer_pc = "none"
    /\ UNCHANGED bufVars

\* stop_recording: the writer thread was joined, _drain_write_queue empties
\* the write queue
BufStopDrain ==
    /\ writer_pc = "none"
    /\ write_queue' = 0
    /\ UNCHANGED <<frame_queue, dropped_frames, stop_writer_event, writer_pc, af_pc>>

\* stop_recording, finally block: self.frame_queue.clear()
BufStopFinally ==
    /\ frame_queue' = 0
    /\ UNCHANGED <<write_queue, dropped_frames, stop_writer_event, writer_pc, af_pc>>

\* _writer_loop: write_queue.get(timeout=0.5) returns a frame
WriterGet ==
    /\ writer_pc = "loop"
    /\ ~stop_writer_event
    /\ write_queue > 0
    /\ write_queue' = write_queue - 1
    /\ writer_pc' = "got"
    /\ UNCHANGED <<recVars, frame_queue, dropped_frames, stop_writer_event, af_pc>>

\* _writer_loop with a frame in hand: break if recording_failed; else write
\* it to the encoder's stdin (written = the write succeeds), a broken pipe or
\* a missing process sets recording_failed and breaks; after a break the
\* thread drains the write queue and ends
WriterWrite(written) ==
    /\ writer_pc = "got"
    /\ af_pc = "idle"
    /\ IF ~ff_recording_failed /\ ff_process # NoProcess /\ written
       THEN /\ writer_pc' = "loop"
            /\ UNCHANGED <<ff_recording_failed, write_queue>>
       ELSE /\ ff_recording_failed' = TRUE
            /\ write_queue' = 0
            /\ writer_pc' = "none"
    /\ UNCHANGED <<ff_recording, ff_restart_count, ff_process, ff_monitor_thread,
                   ff_stop_monitor_event, encoders, ff_call_pc, ff_mon_pc,
                   frame_queue, dropped_frames, stop_writer_event, af_pc>>

\* _writer_loop: stop_writer_event is set, the loop ends, the thread drains
\* the write queue and ends
WriterStop ==
    /\ writer_pc = "loop"
    /\ stop_writer_event
    /\ write_queue' = 0
    /\ writer_pc' = "none"
    /\ UNCHANGED <<recVars, frame_queue, dropped_frames, stop_writer_event, af_pc>>

(***************************************************************************)
(* Recorder: properties                                                    *)
(***************************************************************************)
\* C19 (as claimed): in every reachable Recorder state, recording = true
\* implies that the encoder process handle is non-null and recording_failed
\* is false.
C19_RecordingImpliesHealthy ==
    ff_recording => (ff_process # NoProcess /\ ~ff_recording_failed)

\* C20: in every reachable Recorder state the pre-roll ring holds at most
\* its capacity (pre_record_time * fps frames) and the write queue at most its
\* maxsize, across add_frame, the priming of the write queue at
\* start_recording and at every encoder restart, the writer loop and all
\* drains.
C20_BuffersBounded ==
    /\ frame_queue \in 0..PreRollCapacity
    /\ write_queue \in 0..WriteQueueMaxsize

\* C20 witness: during a recording the ring is at its capacity and the write
\* queue at its maxsize after the queue was primed at an encoder restart.
C20_Witness ==
    /\ ff_recording
    /\ ff_restart_count >= 1
    /\ frame_queue = PreRollCapacity
    /\ write_queue = WriteQueueMaxsize

\* the step is a call of reset_dropped_frames
ResetStep ==
    /\ dropped_frames' = 0
    /\ UNCHANGED <<recVars, frame_queue, write_queue, stop_writer_event, writer_pc,
                   af_pc>>

\* C21 (as claimed): dropped_frames never decreases over any sequence of
\* Recorder operations.
C21_DroppedMonotone == [][dropped_frames' >= dropped_frames]_vars

\* C21 (amended): dropped_frames never decreases over add_frame,
\* start_recording, stop_recording, the monitor loop and the writer loop;
\* only a call of reset_dropped_frames sets it back, to 0.
C21_DroppedMonotoneOrReset ==
    [][dropped_frames' >= dropped_frames \/ ResetStep]_vars

\* C21 witness: add_frame has met a full write queue during a recording: the
\* frame and the frames of the emergency drain are counted as dropped.
C21_Witness ==
    /\ ff_recording
    /\ ff_recording_failed
    /\ dropped_frames >= 2
    /\ af_pc = "idle"

\* the step is the finally block of stop_recording, after which the call returns
StopRecordingReturnStep == ff_call_pc = "stop_finally" /\ ff_call_pc' = "idle"

\* the step belongs to a start_recording or a stop_recording call
StartOrStopStep == ff_call_pc' # ff_call_pc \/ ff_recording' # ff_recording

\* the Recorder's state but the counters and the pre-roll ring is that of a
\* Recorder that was never started
IdleButCounters ==
    /\ ~ff_recording'
    /\ ~ff_recording_failed'
    /\ ff_process' = NoProcess
    /\ ff_monitor_thread' = 0
    /\ write_queue' = 0

AddFrameStep ==
    /\ af_pc = "idle"
    /\ frame_queue' = frame_queue + 1
    /\ UNCHANGED <<recVars, write_queue>>

\* C24 (as claimed): add_frame called while recording is healthy and the
\* write queue holds exactly queue_high_watermark frames accepts the frame:
\* it goes on to enqueue it on the write queue.
C24_WatermarkAccepts ==
    [][(AddFrameStep /\ IsRecordingHealthy /\ write_queue = queue_high_watermark)
       => af_pc' = "put"]_vars

\* the step is an add_frame call that appends its frame to the ring
AddFrameCall ==
    /\ af_pc = "idle"
    /\ frame_queue' = frame_queue + 1

\* C25 (as claimed): when the write queue has reached the critical threshold
\* during a recording, add_frame rejects the frame, drains the queue and sets
\* recording_failed.
C25_CriticalRejectsAndFails ==
    [][(AddFrameCall /\ ff_recording /\ ~ff_recording_failed
            /\ write_queue >= queue_critical_threshold)
       => (af_pc' = "idle" /\ ff_recording_failed'
            /\ write_queue' <= write_queue)]_vars

\* C26 (as claimed): the monitor loop restarts the encoder only while
\* restart_count < max_restarts, and restart_count never exceeds max_restarts
\* within a recording session.
C26_RestartCountBounded ==
    /\ ff_restart_count <= max_restarts
    /\ \A m \in MonitorThreads :
         ff_mon_pc[m] \in {"restart_kill", "restart_spawn"}
            => ff_restart_count < max_restarts

\* the encoder of a recording has exited non-zero with restart_count = 0 and
\* the monitor thread has not restarted it yet
CrashAwaitingRestart ==
    /\ ff_recording
    /\ ~ff_recording_failed
    /\ ff_restart_count = 0
    /\ ff_process # NoProcess
    /\ encoders[ff_process] = "failed"
    /\ writer_pc # "none"

\* the writer thread finishes with the frame it holds
WriterWriteStep == writer_pc = "got" /\ writer_pc' # "got"

\* C27 (as claimed): when the encoder exits non-zero during a recording with
\* restart_count = 0, the session goes on until the restart: is_recording_healthy,
\* which the worker's recording controller polls, does not report a failure,
\* and the writer loop neither marks the recording failed nor ends.
C27_CrashKeepsSession ==
    [][CrashAwaitingRestart
       => /\ IsRecordingHealthy
          /\ WriterWriteStep => (~ff_recording_failed' /\ writer_pc' = "loop")]_vars

\* C3 (as claimed): at most one encoder subprocess launched by the Recorder
\* is alive at any instant.
C3_AtMostOneEncoder == Cardinality(AliveEncoders) <= 1

(***************************************************************************)
(* Motion timer: core/motion_detector.py                                   *)
(***************************************************************************)
\* state.get(...) of a fresh state dictionary (None = NoTime)
MotionStateInit ==
    [motion_start_time |-> NoTime, motion_confirmed |-> FALSE, is_waiting |-> FALSE,
     last_motion_time |-> NoTime, is_recording |-> FALSE,
     is_recording_triggered |-> FALSE, motion_cooldown_until |-> 0]

\* _time_elapsed_since
TimeElapsedSince(start_time, t) ==
    IF start_time = NoTime THEN 0 ELSE Max(0, t - start_time)

\* _is_timeout_reached
IsTimeoutReached(start_time, t, timeout_duration) ==
    /\ start_time # NoTime
    /\ TimeElapsedSince(start_time, t) >= timeout_duration - TIMING_TOLERANCE

\* _is_motion_duration_valid
IsMotionDurationValid(start_time, t) ==
    /\ start_time # NoTime
    /\ TimeElapsedSince(start_time, t) >= MIN_MOTION_DURATION

\* _reset_motion_state
ResetMotionState(st) ==
    [st EXCEPT !.motion_start_time = NoTime, !.motion_confirmed = FALSE,
               !.is_waiting = FALSE]

\* _is_motion_cooldown_active
IsMotionCooldownActive(st, t) == t < st.motion_cooldown_until + TIMING_TOLERANCE

\* _should_confirm_motion
ShouldConfirmMotion(st, t, timeout_duration) ==
    /\ st.motion_start_time # NoTime
    /\ IsTimeoutReached(st.motion_start_time, t, timeout_duration)

\* _start_motion_timer
StartMotionTimer(st, t) ==
    IF t <= 0 THEN st
    ELSE [st EXCEPT !.motion_start_time = t, !.is_waiting = TRUE,
                    !.motion_confirmed = FALSE]

\* _confirm_motion_and_start_recording: the flags are set, and then
\* _reset_motion_state clears motion_start_time and motion_confirmed again
ConfirmMotionAndStartRecording(st, t) ==
    ResetMotionState([st EXCEPT !.motion_confirmed = TRUE, !.last_motion_time = t,
                                !.is_recording = TRUE,
                                !.is_recording_triggered = TRUE,
                                !.is_waiting = FALSE])

\* handle_motion_detection(state, current_time) for a frame whose
\* detect_motion result is motion: the new state and what the call did
HandleMotionDetection(st, motion, t) ==
    IF t <= 0 THEN [state |-> st, ev |-> "invalid"]
    ELSE IF IsMotionCooldownActive(st, t)
    THEN [state |-> ResetMotionState(st), ev |-> "cooldown"]
    ELSE IF motion
    THEN IF st.motion_confirmed
         THEN [state |-> [st EXCEPT !.last_motion_time = t], ev |-> "ongoing"]
         ELSE IF st.motion_start_time = NoTime
         THEN [state |-> StartMotionTimer(st, t), ev |-> "started"]
         ELSE IF ShouldConfirmMotion(st, t, motion_timeout)
         THEN IF IsMotionDurationValid(st.motion_start_time, t)
              THEN [state |-> ConfirmMotionAndStartRecording(st, t), ev |-> "confirm"]
              ELSE [state |-> st, ev |-> "too_short"]
         ELSE [state |-> st, ev |-> "waiting"]
    ELSE [state |-> ResetMotionState(st), ev |-> "no_motion"]

\* set_motion_cooldown
SetMotionCooldown(st, t, cooldown_duration) ==
    IF t <= 0 \/ cooldown_duration < 0 THEN st
    ELSE [st EXCEPT !.motion_cooldown_until = t + cooldown_duration]

MotIdle ==
    /\ mt_now = StartTime
    /\ md_state = MotionStateInit
    /\ md_ev = "none"
    /\ md_last_confirm = NoTime
    /\ md_burst_confirms = 0

\* the frame loop hands the next frame to handle_motion_detection
MotionFrame(dt, motion) ==
    /\ mt_now + dt <= MaxMotionTime
    /\ mt_now' = mt_now + dt
    /\ LET res == HandleMotionDetection(md_state, motion, mt_now + dt)
       IN /\ md_state' = res.state
          /\ md_ev' = res.ev
          /\ md_last_confirm' = IF res.ev = "confirm" THEN mt_now + dt
                                ELSE md_last_confirm
          /\ md_burst_confirms' = IF ~motion THEN 0
                                  ELSE IF res.ev = "confirm"
                                  THEN Min(md_burst_confirms + 1, 2)
                                  ELSE md_burst_confirms

\* the recording manager ends the recording that a confirmation started and
\* sets the cooldown (the End edge)
RecordingEnd ==
    /\ md_state.is_recording
    /\ md_state' = SetMotionCooldown(
                      [md_state EXCEPT !.is_recording = FALSE,
                                       !.is_recording_triggered = FALSE],
                      mt_now, motion_trigger_cooldown)
    /\ md_ev' = "end"
    /\ md_last_confirm' = NoTime
    /\ UNCHANGED <<mt_now, md_burst_confirms>>

(***************************************************************************)
(* Motion timer: properties                                                *)
(***************************************************************************)
\* C4 (as claimed): a call of handle_motion_detection confirms motion only if
\* no earlier confirmation is still open, that is, the recording of the last
\* confirmation has ended or the trigger cooldown since it has run out; motion
\* that goes on after a confirmation gives no second confirmation.
C4_NoSecondConfirm ==
    [][ md_ev' = "confirm" /\ mt_now' # mt_now
          => \/ md_last_confirm = NoTime
             \/ mt_now' - md_last_confirm >= motion_trigger_cooldown ]_vars

\* C28 (as claimed): a run of consecutive motion frames, however long, yields
\* exactly one Confirm edge: handle_motion_detection does not confirm a second
\* time within the run.
C28_OneConfirmPerBurst == md_burst_confirms <= 1

(***************************************************************************)
(* Camera worker: camera_worker.py                                         *)
(***************************************************************************)
Recorders == 1..MaxRecorders
NoRecorder == 0
\* the threads that run CameraWorker.stop(): the command thread (stop
\* command) and the main thread (signal handler, finally of start())
Stoppers == {"command", "main"}

\* state after CameraWorker.__init__ and start()
WrkIdle ==
    /\ wk_running = TRUE
    /\ wk_recording = FALSE
    /\ wk_recorder = NoRecorder
    /\ wk_recording_event = FALSE
    /\ wk_stop_recording_event = FALSE
    /\ wk_motion_detected = FALSE
    /\ wk_motion_start_time = NoTime
    /\ wk_motion_trigger_sent = FALSE
    /\ wk_last_motion_trigger_time = 0
    /\ wk_ev = "none"
    /\ ctl_pc = "wait"
    /\ ctl_inst = NoRecorder
    /\ stp_pc = [t \in Stoppers |-> "idle"]
    /\ stp_inst = [t \in Stoppers |-> NoRecorder]
    /\ rc_lock = [r \in Recorders |-> "free"]
    /\ rc_recording = [r \in Recorders |-> FALSE]

\* the trigger logic of _sub_stream_loop for one frame: the new timer fields,
\* whether recording_event is set, and what the frame did
MotionTrigger(start, sent, last, recording, motion, t) ==
    IF motion
    THEN IF start = NoTime
         THEN [start |-> t, sent |-> FALSE, last |-> last, trigger |-> FALSE,
               ev |-> "started"]
         ELSE IF t - start >= motion_timeout /\ ~sent /\ ~recording
         THEN IF t - last >= motion_trigger_cooldown
              THEN [start |-> start, sent |-> TRUE, last |-> t, trigger |-> TRUE,
                    ev |-> "confirm"]
              ELSE [start |-> start, sent |-> sent, last |-> last, trigger |-> FALSE,
                    ev |-> "debounced"]
         ELSE [start |-> start, sent |-> sent, last |-> last, trigger |-> FALSE,
               ev |-> "ongoing"]
    ELSE [start |-> NoTime, sent |-> FALSE, last |-> last, trigger |-> FALSE,
          ev |-> "no_motion"]

\* the Recorder instances no thread refers to (any of them serves as the
\* object FFmpegRecorder(...) creates)
UnusedRecorders ==
    Recorders \ ({wk_recorder, ctl_inst} \cup {stp_inst[t] : t \in Stoppers})
FreshRecorder == CHOOSE r \in UnusedRecorders : \A q \in UnusedRecorders : r <= q

ctlVars == <<ctl_pc, ctl_inst>>
stpVars == <<stp_pc, stp_inst>>
rcVars == <<rc_lock, rc_recording>>
timerVars == <<wk_motion_detected, wk_motion_start_time, wk_motion_trigger_sent,
               wk_last_motion_trigger_time, wk_ev>>

\* _sub_stream_loop: one frame read and processed
SubStreamFrame(dt, motion) ==
    /\ wk_running
    /\ mt_now + dt <= MaxMotionTime
    /\ mt_now' = mt_now + dt
    /\ LET res == MotionTrigger(wk_motion_start_time, wk_motion_trigger_sent,
                                wk_last_motion_trigger_time, wk_recording, motion,
                                mt_now + dt)
       IN /\ wk_motion_detected' = motion
          /\ wk_motion_start_time' = res.start
          /\ wk_motion_trigger_sent' = res.sent
          /\ wk_last_motion_trigger_time' = res.last
          /\ wk_recording_event' = (wk_recording_event \/ res.trigger)
          /\ wk_ev' = res.ev
    /\ UNCHANGED <<wk_running, wk_recording, wk_recorder, wk_stop_recording_event,
                   ctlVars, stpVars, rcVars, md_state, md_ev, md_last_confirm,
                   md_burst_confirms>>

\* _handle_command: "start_recording" and "stop_recording" from the supervisor
ManualCommand(command) ==
    /\ wk_running
    /\ stp_pc["command"] = "idle"
    /\ wk_recording_event' =
          IF command = "start_recording" /\ ~wk_recording THEN TRUE
          ELSE wk_recording_event
    /\ wk_stop_recording_event' =
          IF command = "stop_recording" /\ wk_recording THEN TRUE
          ELSE wk_stop_recording_event
    /\ UNCHANGED <<wk_running, wk_recording, wk_recorder, timerVars, ctlVars,
                   stpVars, rcVars, motVars>>

\* variant of WhileRunningEnds: the loop does not look at self.running
WhileRunningEnds_Never(running) == FALSE

\* _main_stream_loop, "while self.running:": the loop ends once the flag is
\* cleared (the wait on recording_event returns after 1.0 s at the latest)
WhileRunningEnds(running) == ~running

\* _main_stream_loop: while self.running; recording_event.wait(timeout=1.0)
\* returns True, the event is cleared and _is_recording() is checked
CtlWait ==
    /\ ctl_pc = "wait"
    /\ WhileRunningEnds(wk_running) \/ wk_recording_event
    /\ IF WhileRunningEnds(wk_running)
       THEN ctl_pc' = "exit" /\ UNCHANGED wk_recording_event
       ELSE /\ wk_recording_event' = FALSE
            /\ ctl_pc' = IF wk_recording THEN "wait" ELSE "start"
    /\ UNCHANGED <<wk_running, wk_recording, wk_recorder, wk_stop_recording_event,
                   timerVars, ctl_inst, stpVars, rcVars, motVars>>

\* _start_recording up to self.recorder = FFmpegRecorder(...):
\* _set_recording_state(True), motion_trigger_sent = False, the new Recorder.
\* ok = nothing raised (a main stream URL is configured)
CtlNewRecorder(ok) ==
    /\ ctl_pc = "start"
    /\ UnusedRecorders # {}
    /\ IF wk_recording
       THEN /\ ctl_pc' = "started"
            /\ UNCHANGED <<wk_recording, wk_recorder, wk_motion_trigger_sent,
                           wk_recording_event, rc_recording>>
       ELSE /\ wk_motion_trigger_sent' = FALSE
            /\ IF ok
               THEN /\ wk_recording' = TRUE
                    /\ wk_recorder' = FreshRecorder
                    /\ rc_recording' = [rc_recording EXCEPT ![FreshRecorder] = FALSE]
                    /\ ctl_pc' = "start_call"
                    /\ UNCHANGED wk_recording_event
               ELSE /\ wk_recording' = FALSE
                    /\ wk_recording_event' = FALSE
                    /\ ctl_pc' = "started"
                    /\ UNCHANGED <<wk_recorder, rc_recording>>
    /\ UNCHANGED <<wk_running, wk_stop_recording_event, wk_motion_detected,
                   wk_motion_start_time, wk_last_motion_trigger_time, wk_ev,
                   ctl_inst, stpVars, rc_lock, motVars>>

\* _start_recording: self.recorder.start_recording() is called; the thread is
\* in the method and asks for the Recorder's lock
CtlStartCall ==
    /\ ctl_pc = "start_call"
    /\ ctl_inst' = wk_recorder
    /\ ctl_pc' = "start_lock"
    /\ UNCHANGED <<wk_running, wk_recording, wk_recorder, wk_recording_event,
                   wk_stop_recording_event, timerVars, stpVars, rcVars, motVars>>

\* FFmpegRecorder.start_recording: with self.lock
CtlStartAcquire ==
    /\ ctl_pc = "start_lock"
    /\ rc_lock[ctl_inst] = "free"
    /\ rc_lock' = [rc_lock EXCEPT ![ctl_inst] = "control"]
    /\ ctl_pc' = "start_body"
    /\ UNCHANGED <<wk_running, wk_recording, wk_recorder, wk_recording_event,
                   wk_stop_recording_event, timerVars, ctl_inst, stpVars,
                   rc_recording, motVars>>

\* FFmpegRecorder.start_recording: the body under the lock and the return;
\* then _start_recording clears recording_event.  ok = the encoder started
CtlStartBody(ok) ==
    /\ ctl_pc = "start_body"
    /\ rc_recording' = [rc_recording EXCEPT ![ctl_inst] = @ \/ ok]
    /\ rc_lock' = [rc_lock EXCEPT ![ctl_inst] = "free"]
    /\ wk_recording_event' = FALSE
    /\ ctl_pc' = "started"
    /\ ctl_inst' = NoRecorder
    /\ UNCHANGED <<wk_running, wk_recording, wk_recorder, wk_stop_recording_event,
                   timerVars, stpVars, motVars>>

\* _main_stream_loop after _start_recording(): enter the recording loop only
\* if _is_recording(), clearing stop_recording_event first
CtlStarted ==
    /\ ctl_pc = "started"
    /\ IF wk_recording
       THEN ctl_pc' = "recording" /\ wk_stop_recording_event' = FALSE
       ELSE ctl_pc' = "wait" /\ UNCHANGED wk_stop_recording_event
    /\ UNCHANGED <<wk_running, wk_recording, wk_recorder, wk_recording_event,
                   timerVars, ctl_inst, stpVars, rcVars, motVars>>

\* _main_stream_loop: the recording loop ends (not running, not recording,
\* stop_recording_event, or a break for health or auto-stop) and
\* _stop_recording begins: _set_recording_state(False), trigger flags reset
CtlLeaveRecording(break) ==
    /\ ctl_pc = "recording"
    /\ ~wk_running \/ ~wk_recording \/ wk_stop_recording_event \/ break
    /\ IF wk_recording
       THEN /\ wk_recording' = FALSE
            /\ wk_motion_trigger_sent' = FALSE
            /\ wk_motion_start_time' = NoTime
            /\ ctl_pc' = "stop_call"
       ELSE /\ ctl_pc' = "stopped"
            /\ UNCHANGED <<wk_recording, wk_motion_trigger_sent, wk_motion_start_time>>
    /\ UNCHANGED <<wk_running, wk_recorder, wk_recording_event,
                   wk_stop_recording_event, wk_motion_detected,
                   wk_last_motion_trigger_time, wk_ev, ctl_inst, stpVars, rcVars,
                   motVars>>

\* _stop_recording: if self.recorder: self.recorder.stop_recording() is called
CtlStopCall ==
    /\ ctl_pc = "stop_call"
    /\ IF wk_recorder = NoRecorder
       THEN ctl_pc' = "stop_clear" /\ UNCHANGED ctl_inst
       ELSE ctl_pc' = "stop_lock" /\ ctl_inst' = wk_recorder
    /\ UNCHANGED <<wk_running, wk_recording, wk_recorder, wk_recording_event,
                   wk_stop_recording_event, timerVars, stpVars, rcVars, motVars>>

\* FFmpegRecorder.stop_recording: with self.lock, return if not recording,
\* else recording = False
CtlStopLocked ==
    /\ ctl_pc = "stop_lock"
    /\ rc_lock[ctl_inst] = "free"
    /\ ctl_pc' = IF StopRecordingProceeds(rc_recording[ctl_inst])
                 THEN "stop_rest" ELSE "stop_return"
    /\ rc_recording' = [rc_recording EXCEPT ![ctl_inst] = FALSE]
    /\ UNCHANGED <<wk_running, wk_recording, wk_recorder, wk_recording_event,
                   wk_stop_recording_event, timerVars, ctl_inst, stpVars, rc_lock,
                   motVars>>

\* FFmpegRecorder.stop_recording: the part outside the lock (monitor and
\* writer joins, encoder shutdown, finally)
CtlStopRest ==
    /\ ctl_pc = "stop_rest"
    /\ ctl_pc' = "stop_return"
    /\ UNCHANGED <<wk_running, wk_recording, wk_recorder, wk_recording_event,
                   wk_stop_recording_event, timerVars, ctl_inst, stpVars, rcVars,
                   motVars>>

\* _stop_recording after stop_recording returned: self.recorder = None
CtlStopReturn ==
    /\ ctl_pc = "stop_return"
    /\ wk_recorder' = NoRecorder
    /\ ctl_inst' = NoRecorder
    /\ ctl_pc' = "stop_clear"
    /\ UNCHANGED <<wk_running, wk_recording, wk_recording_event,
                   wk_stop_recording_event, timerVars, stpVars, rcVars, motVars>>

\* _stop_recording and _main_stream_loop: stop_recording_event.clear()
CtlStopClear ==
    /\ ctl_pc \in {"stop_clear", "stopped"}
    /\ wk_stop_recording_event' = FALSE
    /\ ctl_pc' = "wait"
    /\ UNCHANGED <<wk_running, wk_recording, wk_recorder, wk_recording_event,
                   timerVars, ctl_inst, stpVars, rcVars, motVars>>

\* CameraWorker.stop() begins in thread t: the command thread handles a stop
\* command while its loop runs; the main thread runs the signal handler, or
\* the finally block of start() once running is False.
\* with self.lock: self.running = False
StopBegin(t) ==
    /\ stp_pc[t] = "idle"
    /\ t = "command" => wk_running
    /\ wk_running' = FALSE
    /\ stp_pc' = [stp_pc EXCEPT ![t] = "set_event"]
    /\ UNCHANGED <<wk_recording, wk_recorder, wk_recording_event,
                   wk_stop_recording_event, timerVars, ctlVars, stp_inst, rcVars,
                   motVars>>

\* stop(): self.stop_recording_event.set()
StopSetEvent(t) ==
    /\ stp_pc[t] = "set_event"
    /\ wk_stop_recording_event' = TRUE
    /\ stp_pc' = [stp_pc EXCEPT ![t] = "check_recorder"]
    /\ UNCHANGED <<wk_running, wk_recording, wk_recorder, wk_recording_event,
                   timerVars, ctlVars, stp_inst, rcVars, motVars>>

\* stop(): if self.recorder
StopCheckRecorder(t) ==
    /\ stp_pc[t] = "check_recorder"
    /\ stp_pc' = [stp_pc EXCEPT ![t] =
                     IF wk_recorder # NoRecorder THEN "stop_call" ELSE "join"]
    /\ UNCHANGED <<wk_running, wk_recording, wk_recorder, wk_recording_event,
                   wk_stop_recording_event, timerVars, ctlVars, stp_inst, rcVars,
                   motVars>>

\* stop(): self.recorder.stop_recording() is called (self.recorder read again;
\* None raises, which the except branch logs)
StopCall(t) ==
    /\ stp_pc[t] = "stop_call"
    /\ IF wk_recorder = NoRecorder
       THEN stp_pc' = [stp_pc EXCEPT ![t] = "join"] /\ UNCHANGED stp_inst
       ELSE /\ stp_pc' = [stp_pc EXCEPT ![t] = "stop_lock"]
            /\ stp_inst' = [stp_inst EXCEPT ![t] = wk_recorder]
    /\ UNCHANGED <<wk_running, wk_recording, wk_recorder, wk_recording_event,
                   wk_stop_recording_event, timerVars, ctlVars, rcVars, motVars>>

\* FFmpegRecorder.stop_recording in thread t: with self.lock, return if not
\* recording, else recording = False
StopLocked(t) ==
    /\ stp_pc[t] = "stop_lock"
    /\ rc_lock[stp_inst[t]] = "free"
    /\ stp_pc' = [stp_pc EXCEPT ![t] =
                     IF StopRecordingProceeds(rc_recording[stp_inst[t]])
                     THEN "stop_rest" ELSE "join"]
    /\ stp_inst' = [stp_inst EXCEPT ![t] =
                     IF StopRecordingProceeds(rc_recording[stp_inst[t]])
                     THEN @ ELSE NoRecorder]
    /\ rc_recording' = [rc_recording EXCEPT ![stp_inst[t]] = FALSE]
    /\ UNCHANGED <<wk_running, wk_recording, wk_recorder, wk_recording_event,
                   wk_stop_recording_event, timerVars, ctlVars, rc_lock, motVars>>

\* FFmpegRecorder.stop_recording in thread t: the part outside the lock
StopRest(t) ==
    /\ stp_pc[t] = "stop_rest"
    /\ stp_pc' = [stp_pc EXCEPT ![t] = "join"]
    /\ stp_inst' = [stp_inst EXCEPT ![t] = NoRecorder]
    /\ UNCHANGED <<wk_running, wk_recording, wk_recorder, wk_recording_event,
                   wk_stop_recording_event, timerVars, ctlVars, rcVars, motVars>>

\* stop(): the thread joins (2.0 s each; they end or the join times out),
\* then recording_event.clear() and stop_recording_event.clear()
StopJoinAndClear(t) ==
    /\ stp_pc[t] = "join"
    /\ wk_recording_event' = FALSE
    /\ wk_stop_recording_event' = FALSE
    /\ stp_pc' = [stp_pc EXCEPT ![t] = "done"]
    /\ UNCHANGED <<wk_running, wk_recording, wk_recorder, timerVars, ctlVars,
                   stp_inst, rcVars, motVars>>

(***************************************************************************)
(* Camera worker: the recording loop of _main_stream_loop                  *)
(***************************************************************************)
\* self.error_message = None
NoError == "none"

\* the values self.error_message takes in the capture loop
ErrorMessages ==
    {NoError, "Frame read failed", "Frame validation failed", "Connection failed",
     "Both MAIN and SUB streams unreachable", "Max connection failures reached"}

\* _is_stream_healthy_for_recording: critical_errors
CriticalStreamErrors ==
    {"Max connection failures reached", "Both MAIN and SUB streams unreachable"}

\* the values of self.last_fps that are told apart: none, low, as configured
FpsValues == {0, 2, expected_fps}

\* _is_stream_healthy_for_recording: min_recording_fps = expected_fps * 0.2
min_recording_fps == expected_fps \div 5

LoopIdle ==
    /\ rl_now = 0
    /\ rl_recording = FALSE
    /\ rl_recording_start_time = NoTime
    /\ rl_motion_detected = FALSE
    /\ rl_last_fps = 0
    /\ rl_error_message = NoError
    /\ rl_stream_health_failures = 0
    /\ rl_last_valid_stream_time = 0
    /\ rl_last_stream_health_check = 0
    /\ rl_last_motion_time = NoTime
    /\ rl_low_fps_since = NoTime
    /\ rl_ev = "none"

\* _get_recording_duration
GetRecordingDuration(recording, start_time, t) ==
    IF recording /\ start_time # NoTime THEN t - start_time ELSE 0

\* variant of AutoStop: the post-roll is not waited for
AutoStop_NoPostRoll(motion_detected, recording_duration) == ~motion_detected

\* _main_stream_loop, auto-stop logic: "if not motion_detected and
\* recording_duration > self.post_record_time: break"
AutoStop(motion_detected, recording_duration) ==
    ~motion_detected /\ recording_duration > post_record_time

\* _is_stream_healthy_for_recording: the verdict and the fields it updates.
\*   highFailureRate = more than 100 frames processed, over 50% invalid
IsStreamHealthyForRecording(fps, error, t, last_valid, failures, highFailureRate) ==
    IF error \in CriticalStreamErrors
    THEN [healthy |-> FALSE, last_valid |-> last_valid, failures |-> failures]
    ELSE IF fps < min_recording_fps
    THEN IF t - last_valid > max_stream_downtime_during_recording
         THEN [healthy |-> FALSE, last_valid |-> last_valid, failures |-> failures]
         ELSE [healthy |-> ~highFailureRate, last_valid |-> last_valid,
               failures |-> failures]
    ELSE [healthy |-> ~highFailureRate, last_valid |-> t, failures |-> 0]

\* dt seconds pass, in which the capture loop has set motion_detected,
\* last_fps and error_message
LoopTick(dt, motion, fps, error) ==
    /\ rl_now' = rl_now + dt
    /\ rl_motion_detected' = motion
    /\ rl_last_fps' = fps
    /\ rl_error_message' = error
    /\ rl_last_motion_time' = IF motion THEN rl_now + dt ELSE rl_last_motion_time
    /\ rl_low_fps_since' = IF fps >= min_recording_fps THEN NoTime
                           ELSE IF rl_low_fps_since = NoTime THEN rl_now + dt
                           ELSE rl_low_fps_since
    /\ UNCHANGED <<rl_recording, rl_recording_start_time, rl_stream_health_failures,
                   rl_last_valid_stream_time, rl_last_stream_health_check, rl_ev>>

\* _main_stream_loop: a recording trigger, _start_recording sets the recording
\* state and the recording loop is entered
LoopStart ==
    /\ ~rl_recording
    /\ rl_recording' = TRUE
    /\ rl_recording_start_time' = rl_now
    /\ rl_stream_health_failures' = 0
    /\ rl_last_valid_stream_time' = rl_now
    /\ rl_last_stream_health_check' = rl_now
    /\ rl_ev' = "recording"
    /\ UNCHANGED <<rl_now, rl_motion_detected, rl_last_fps, rl_error_message,
                   rl_last_motion_time, rl_low_fps_since>>

\* _main_stream_loop: one pass of the recording loop; a break is followed by
\* _stop_recording, which clears the recording state.
\*   stopEvent = stop_recording_event is set
\*   ffmpegFailed = the 2 s check is due and is_recording_healthy() is False
LoopIterate(stopEvent, ffmpegFailed, highFailureRate) ==
    /\ rl_recording
    /\ LET due == rl_now - rl_last_stream_health_check >= StreamHealthInterval
           h == IsStreamHealthyForRecording(rl_last_fps, rl_error_message, rl_now,
                   rl_last_valid_stream_time, rl_stream_health_failures,
                   highFailureRate)
           failures == IF h.healthy THEN 0 ELSE h.failures + 1
           why == IF stopEvent THEN "stop_event"
                  ELSE IF ffmpegFailed THEN "ffmpeg_failed"
                  ELSE IF due /\ ~h.healthy
                          /\ failures >= max_stream_failures_during_recording
                  THEN "stream_unhealthy"
                  ELSE IF AutoStop(rl_motion_detected,
                              GetRecordingDuration(rl_recording, rl_recording_start_time,
                                                   rl_now))
                  THEN "auto_stop"
                  ELSE "recording"
           checked == due /\ ~stopEvent /\ ~ffmpegFailed
       IN /\ rl_ev' = why
          /\ rl_recording' = (why = "recording")
          /\ rl_recording_start_time' =
                IF why = "recording" THEN rl_recording_start_time ELSE NoTime
          /\ rl_stream_health_failures' =
                IF checked THEN failures ELSE rl_stream_health_failures
          /\ rl_last_valid_stream_time' =
                IF checked THEN h.last_valid ELSE rl_last_valid_stream_time
          /\ rl_last_stream_health_check' =
                IF checked /\ why # "stream_unhealthy" THEN rl_now
                ELSE rl_last_stream_health_check
    /\ UNCHANGED <<rl_now, rl_motion_detected, rl_last_fps, rl_error_message,
                   rl_last_motion_time, rl_low_fps_since>>

(***************************************************************************)
(* Camera worker: _heartbeat_loop                                          *)
(***************************************************************************)
NoHeartbeat == [stream_state |-> "none"]

HbIdle == hb_last = NoHeartbeat

\* _heartbeat_loop, "Determine stream state".
\*   failed = self.recorder exists and get_recording_status()['failed']
StreamState(error, recording, failed, fps) ==
    IF error # NoError THEN "error"
    ELSE IF recording THEN (IF failed THEN "recording_failed" ELSE "recording")
    ELSE IF fps > 0 THEN "capturing"
    ELSE "idle"

\* _heartbeat_loop: one pass. The heartbeat is built from the worker's state
\* and put on the status queue; after a successful put a pending error that
\* does not start with "Max connection failures" is cleared.
\*   sent = put_nowait did not raise
Heartbeat(failed, sent) ==
    /\ hb_last' = [stream_state |-> StreamState(rl_error_message, rl_recording,
                                                failed, rl_last_fps),
                   error_message |-> rl_error_message,
                   recording |-> rl_recording,
                   failed |-> failed,
                   fps |-> rl_last_fps]
    /\ rl_error_message' =
          IF sent /\ rl_error_message # "Max connection failures reached"
          THEN NoError ELSE rl_error_message
    /\ UNCHANGED <<rl_now, rl_recording, rl_recording_start_time, rl_motion_detected,
                   rl_last_fps, rl_stream_health_failures, rl_last_valid_stream_time,
                   rl_last_stream_health_check, rl_last_motion_time,
                   rl_low_fps_since, rl_ev>>

(***************************************************************************)
(* Camera worker: _sub_stream_loop and the main thread of start()          *)
(***************************************************************************)
CapIdle ==
    /\ cp_now = 0
    /\ cp_running = TRUE
    /\ cp_exited = FALSE
    /\ cp_sub_pc = "loop"
    /\ cp_cap = FALSE
    /\ cp_connection_failures = 0
    /\ cp_consecutive_frame_failures = 0
    /\ cp_last_valid_frame_time = 0

\* _assess_stream_health: min_acceptable_fps = expected_fps * 0.3, in whole
\* frames per second (last_fps < 4.5)
min_acceptable_fps == (expected_fps * 3 + 9) \div 10

\* _sub_stream_loop, "Connection establishment": one attempt once the rate
\* limit has passed. The pauses between attempts are not followed: cp_now
\* counts the seconds of the connected stream only.
\*   urlFound = get_camera_sub_url or get_camera_main_url gave a URL
\*   opened = VideoCapture opened and gave a valid test frame
CapConnect(urlFound, opened) ==
    /\ cp_running /\ ~cp_exited /\ cp_sub_pc = "loop" /\ ~cp_cap
    /\ cp_connection_failures < MaxConnectionFailures
    /\ IF ~urlFound
       THEN /\ cp_connection_failures' = cp_connection_failures + 1
            /\ IF cp_connection_failures + 1 >= max_connection_failures
               THEN /\ rl_error_message' = "Max connection failures reached"
                    /\ cp_sub_pc' = "ended"
               ELSE /\ rl_error_message' = "Both MAIN and SUB streams unreachable"
                    /\ cp_sub_pc' = cp_sub_pc
            /\ UNCHANGED <<cp_cap, cp_consecutive_frame_failures,
                           cp_last_valid_frame_time>>
       ELSE IF ~opened
       THEN /\ cp_connection_failures' = cp_connection_failures + 1
            /\ rl_error_message' = "Connection failed"
            /\ UNCHANGED <<cp_sub_pc, cp_cap, cp_consecutive_frame_failures,
                           cp_last_valid_frame_time>>
       ELSE /\ cp_cap' = TRUE
            /\ cp_connection_failures' = 0
            /\ cp_consecutive_frame_failures' = 0
            /\ cp_last_valid_frame_time' = cp_now
            /\ rl_error_message' = NoError
            /\ UNCHANGED cp_sub_pc
    /\ UNCHANGED <<cp_now, cp_running, cp_exited, rl_last_fps>>

\* _sub_stream_loop, "Check for frame gap": the test is reached only after a
\* valid frame (a failed read and an invalid frame end in "continue")
FrameGapExceeded(t, last_valid_frame_time, valid) ==
    valid /\ t - last_valid_frame_time > max_frame_gap

\* _sub_stream_loop, "Frame reading and processing": one pass with an open
\* capture. cp_now is current_time, the time at the top of the pass.
\*   result = "failed" (ret is False), "invalid" (_validate_frame rejects) or
\*            "valid"
\*   dt = the seconds the pass takes: 1 after a failed read (sleep 1.0),
\*        0 or 1 otherwise (sleep 0.5, sleep 0.033)
\*   fps = the FPS measured, stored with a valid frame
CapFrame(result, dt, fps) ==
    /\ cp_running /\ ~cp_exited /\ cp_sub_pc = "loop" /\ cp_cap
    /\ result = "failed" => dt = 1
    /\ LET failures == IF result = "valid" THEN 0
                       ELSE cp_consecutive_frame_failures + 1
           last_valid == IF result = "valid" THEN cp_now
                         ELSE cp_last_valid_frame_time
           release == \/ failures >= max_consecutive_frame_failures
                      \/ FrameGapExceeded(cp_now, last_valid, result = "valid")
       IN /\ cp_consecutive_frame_failures' =
                IF failures >= max_consecutive_frame_failures THEN 0 ELSE failures
          /\ cp_last_valid_frame_time' = last_valid
          /\ cp_cap' = ~release
    /\ rl_error_message' = IF result = "failed" THEN "Frame read failed"
                           ELSE IF result = "invalid" THEN "Frame validation failed"
                           ELSE rl_error_message
    /\ rl_last_fps' = IF result = "valid" THEN fps ELSE rl_last_fps
    /\ cp_now' = cp_now + dt
    /\ UNCHANGED <<cp_running, cp_exited, cp_sub_pc, cp_connection_failures>>

\* _sub_stream_loop, "Periodic stream health assessment": the 30 s check is
\* due; an unhealthy verdict of _assess_stream_health releases the capture.
\*   highFailureRate = over 10% of the frames processed failed validation
CapHealthCheck(highFailureRate) ==
    /\ cp_running /\ ~cp_exited /\ cp_sub_pc = "loop"
    /\ cp_cap' = (cp_cap /\ ~(rl_last_fps < min_acceptable_fps \/ highFailureRate))
    /\ UNCHANGED <<cp_now, cp_running, cp_exited, cp_sub_pc, cp_connection_failures,
                   cp_consecutive_frame_failures, cp_last_valid_frame_time,
                   rl_error_message, rl_last_fps>>

\* _sub_stream_loop: "while self.running" is false, the loop ends and the
\* finally block releases the capture
CapLoopExit ==
    /\ ~cp_running /\ cp_sub_pc = "loop"
    /\ cp_sub_pc' = "ended"
    /\ cp_cap' = FALSE
    /\ UNCHANGED <<cp_now, cp_running, cp_exited, cp_connection_failures,
                   cp_consecutive_frame_failures, cp_last_valid_frame_time,
                   rl_error_message, rl_last_fps>>

\* stop(), called for a stop command or a signal: self.running = False
CapStop ==
    /\ cp_running /\ ~cp_exited
    /\ cp_running' = FALSE
    /\ UNCHANGED <<cp_now, cp_exited, cp_sub_pc, cp_cap, cp_connection_failures,
                   cp_consecutive_frame_failures, cp_last_valid_frame_time,
                   rl_error_message, rl_last_fps>>

\* start(): "while self.running: time.sleep(1.0)" has ended, stop() has run
\* and the process ends with its daemon threads
MainThreadExit ==
    /\ ~cp_running /\ ~cp_exited
    /\ cp_exited' = TRUE
    /\ cp_sub_pc' = "ended"
    /\ cp_cap' = FALSE
    /\ UNCHANGED <<cp_now, cp_running, cp_connection_failures,
                   cp_consecutive_frame_failures, cp_last_valid_frame_time,
                   rl_error_message, rl_last_fps>>

\* the parts of the recording loop's state the capture loop leaves alone
loopRest == <<rl_now, rl_recording, rl_recording_start_time, rl_motion_detected,
              rl_stream_health_failures, rl_last_valid_stream_time,
              rl_last_stream_health_check, rl_last_motion_time, rl_low_fps_since,
              rl_ev>>

CamIdle == LoopIdle /\ HbIdle /\ CapIdle

(***************************************************************************)
(* Camera worker: properties                                               *)
(***************************************************************************)
\* the main-stream thread is inside FFmpegRecorder.start_recording of r
InStartRecording(r) == ctl_pc \in {"start_lock", "start_body"} /\ ctl_inst = r

\* some thread is inside FFmpegRecorder.stop_recording of r
InStopRecording(r) ==
    \/ ctl_pc \in {"stop_lock", "stop_rest"} /\ ctl_inst = r
    \/ \E t \in Stoppers : stp_pc[t] \in {"stop_lock", "stop_rest"} /\ stp_inst[t] = r

\* C5 (as claimed): no Recorder has start_recording and stop_recording
\* called on it at the same time; one call has returned before the other begins.
C5_StartStopSerialized ==
    \A r \in Recorders : ~(InStartRecording(r) /\ InStopRecording(r))

\* thread t's stop_recording call on Recorder r passes its first block
StopRecordingCallStep(t, r) ==
    /\ stp_pc[t] = "stop_lock"
    /\ stp_inst[t] = r
    /\ stp_pc'[t] # "stop_lock"

\* the main-stream thread's stop_recording call on r passes its first block
CtlStopRecordingCallStep(r) ==
    /\ ctl_pc = "stop_lock"
    /\ ctl_inst = r
    /\ ctl_pc' # "stop_lock"

\* C22: a stop_recording call made while the Recorder is not recording (a
\* second call after a first, or one racing with a first from another thread)
\* returns from its first block: it changes no Recorder state and never
\* reaches the part that joins threads and shuts the encoder down.
C22_StopRecordingIdempotent ==
    [][\A r \in Recorders :
         /\ \A t \in Stoppers :
               (StopRecordingCallStep(t, r) /\ ~rc_recording[r])
               => stp_pc'[t] = "join" /\ UNCHANGED rcVars
         /\ (CtlStopRecordingCallStep(r) /\ ~rc_recording[r])
               => ctl_pc' = "stop_return" /\ UNCHANGED rcVars]_vars

\* C22 witness: one thread is in the unlocked part of stop_recording of a
\* Recorder, which is no longer recording, while another thread's
\* stop_recording call on the same Recorder is at its first block.
C22_Witness ==
    \E r \in Recorders, t \in Stoppers :
        /\ ~rc_recording[r]
        /\ stp_pc[t] = "stop_lock" /\ stp_inst[t] = r
        /\ \/ ctl_pc = "stop_rest" /\ ctl_inst = r
           \/ \E u \in Stoppers \ {t} : stp_pc[u] = "stop_rest" /\ stp_inst[u] = r

\* the capture loop's trigger confirms motion on this frame
TriggerStep ==
    /\ mt_now' # mt_now
    /\ wk_ev' = "confirm"
    /\ wk_last_motion_trigger_time' = mt_now'

\* C29 (as claimed): a run of motion frames that began within the trigger
\* cooldown of the last Confirm (motion for 2 s, a pause of 0.5 s, motion
\* again) produces no second Confirm: it is suppressed by the
\* last_motion_trigger_time debounce, whether or not a recording is active.
C29_SecondBurstSuppressed ==
    [][(TriggerStep /\ wk_last_motion_trigger_time > 0)
       => wk_motion_start_time - wk_last_motion_trigger_time
             >= motion_trigger_cooldown]_vars

\* a frame with motion is processed by the capture loop
MotionFrameStep == mt_now' # mt_now /\ wk_motion_detected'

\* C30 (as claimed): a motion frame that arrives when motion has lasted at
\* least motion_timeout - 10 ms (and at least 0.1 s), with the trigger
\* cooldown elapsed, no trigger sent and no recording active, confirms motion.
C30_ConfirmWithinTolerance ==
    [][(/\ MotionFrameStep
        /\ wk_motion_start_time # NoTime
        /\ mt_now' - wk_motion_start_time >= motion_timeout - TIMING_TOLERANCE
        /\ mt_now' - wk_motion_start_time >= MIN_MOTION_DURATION
        /\ mt_now' - wk_last_motion_trigger_time >= motion_trigger_cooldown
        /\ ~wk_motion_trigger_sent
        /\ ~wk_recording)
       => TriggerStep]_vars

\* the recording loop ends the recording for lack of motion (the End edge)
AutoStopStep == rl_recording /\ ~rl_recording' /\ rl_ev' = "auto_stop"

\* C31 (as claimed): a recording in which motion was detected is ended for
\* lack of motion only when motion is false and at least post_record_time
\* seconds have passed since motion was last detected.
C31_PostRollCovered ==
    [][(AutoStopStep /\ rl_last_motion_time # NoTime)
       => (~rl_motion_detected
             /\ rl_now - rl_last_motion_time >= post_record_time)]_vars

\* C32 (as claimed): while the worker runs, a stop request that was accepted
\* with the recording flag true is not lost: stop_recording_event stays set
\* until the recording controller has cleared the recording flag.
C32_StopRequestKept ==
    [][(wk_running' /\ wk_recording /\ wk_stop_recording_event
            /\ ~wk_stop_recording_event')
       => ~wk_recording']_vars

\* C33 (as claimed): the stream_state of every heartbeat is "error" if the
\* pending error message is one of the critical ones (max connection failures,
\* no valid camera URL, both streams unreachable), otherwise
\* "recording_failed" if the Recorder reports failure, otherwise "recording"
\* if the worker is recording, otherwise "capturing" if FPS > 0, otherwise
\* "idle".
C33_StreamStateAsStated ==
    hb_last # NoHeartbeat =>
        hb_last.stream_state =
            IF hb_last.error_message \in CriticalStreamErrors \cup {ErrNoUrl}
            THEN "error"
            ELSE IF hb_last.failed THEN "recording_failed"
            ELSE IF hb_last.recording THEN "recording"
            ELSE IF hb_last.fps > 0 THEN "capturing"
            ELSE "idle"

\* a pass of the capture loop over an open capture that got no valid frame
FailedFramePass ==
    /\ cp_cap /\ cp_sub_pc = "loop"
    /\ cp_consecutive_frame_failures' # cp_consecutive_frame_failures
    /\ cp_last_valid_frame_time' = cp_last_valid_frame_time

\* C36 (as claimed): a pass of the capture loop that gets no valid frame (the
\* read fails or the frame is invalid) more than 5 s after the last valid
\* frame releases the capture handle, which forces a reconnect.
C36_FrameGapForcesReconnect ==
    [][(FailedFramePass /\ cp_now - cp_last_valid_frame_time > max_frame_gap)
          => ~cp_cap']_vars

\* the capture loop has given up after max_connection_failures
GaveUpConnecting ==
    cp_sub_pc = "ended" /\ rl_error_message = "Max connection failures reached"

\* C34 (as claimed): once the capture loop has met its fifth URL failure and
\* set the error "Max connection failures reached", the worker process
\* eventually exits.
C34_MaxFailuresExit == GaveUpConnecting ~> cp_exited

\* a pass of the recording loop that makes the 5 s stream-health check
StreamHealthPass ==
    /\ rl_recording
    /\ rl_last_stream_health_check # rl_now
    /\ rl_last_stream_health_check' = rl_now

\* C35 (as claimed, for sustained low FPS): a stream-health check of the
\* recording loop made when the measured FPS has been below 20% of the
\* configured FPS since some time in this recording, for 30 s and one more
\* check interval, ends the recording.
C35_LowFpsEndsRecording ==
    [][(/\ StreamHealthPass
        /\ rl_low_fps_since # NoTime
        /\ rl_low_fps_since >= rl_recording_start_time
        /\ rl_now - rl_low_fps_since
              >= max_stream_downtime_during_recording + StreamHealthInterval)
          => ~rl_recording']_vars

\* stop_recording of a Recorder that was recording returns
StopRecordingReturns == ff_call_pc = "stop_finally" /\ ff_call_pc' = "idle"

\* C37 (as claimed): when stop_recording returns for a Recorder that was
\* recording, the Recorder holds no encoder handle and no encoder subprocess
\* launched by it is alive.
C37_NoEncoderAfterStop ==
    [][StopRecordingReturns
          => (ff_process' = NoProcess /\ \A p \in EncoderIds : encoders'[p] # "alive")]_vars

\* stop_recording decides how to shut down an encoder that is running
ShutdownDecision ==
    /\ ff_call_pc = "stop_process" /\ ff_call_pc' = "stop_finally"
    /\ ff_shutdown'.how \in {"immediate", "graceful"}

\* C38 (as claimed): stop_recording shuts a running encoder down immediately
\* exactly when the caller passed force_immediate, the encoder has been
\* restarted at least once, the write queue was backed up beyond the threshold
\* when the call was made, or the encoder's stdin is not writable; otherwise
\* the shutdown is graceful.
C38_ForceImmediateAsStated ==
    [][ShutdownDecision
          => ((ff_shutdown'.how = "immediate")
                <=> (\/ ff_shutdown'.force_immediate
                     \/ ff_restart_count >= 1
                     \/ ff_stop_backed_up
                     \/ ~ff_shutdown'.stdin_ready))]_vars

C40_OneLiveChildPerCamera == \A w \in Cameras : Cardinality(alive[w]) <= 1

(***************************************************************************)
(* Specifications                                                          *)
(***************************************************************************)
\* the supervisor of a deployment with one enabled camera
\* (test_worker_restart_logic), its worker an environment process
Init == SupInit({"cam1"}) /\ RecIdle /\ MotIdle /\ WrkIdle /\ MainStarted({"cam1"}) /\ BufIdle /\ CamIdle
Next ==
    \/ Tick /\ UNCHANGED <<recVars, motVars, wrkVars, mainVars, bufVars, camVars, stopVars>>
    \/ (\E w \in Cameras, msg \in Heartbeats : WorkerHeartbeat(w, msg))
           /\ UNCHANGED <<recVars, motVars, wrkVars, mainVars, bufVars, camVars, stopVars>>
    \/ (\E w \in Cameras, p \in 1..(2 * MaxTime) : WorkerExit(w, p))
           /\ UNCHANGED <<recVars, motVars, wrkVars, mainVars, bufVars, camVars, stopVars>>
    \/ MonitorBegin /\ UNCHANGED <<recVars, motVars, wrkVars, mainVars, bufVars, camVars, stopVars>>
    \/ ProcessStatusMessage /\ UNCHANGED <<recVars, motVars, wrkVars, mainVars, bufVars, camVars, stopVars>>
    \/ DrainNext /\ UNCHANGED <<recVars, motVars, wrkVars, mainVars, bufVars, camVars, stopVars>>
    \/ CheckHealth /\ UNCHANGED <<recVars, motVars, wrkVars, mainVars, bufVars, camVars, stopVars>>
Spec == Init /\ [][Next]_vars

\* the same supervisor followed long enough for a _stop_worker that fails
\* and the re-spawn that follows it; the worker's heartbeats are healthy ones
InitRespawn == SupInit({"cam1"}) /\ RecIdle /\ MotIdle /\ WrkIdle /\ MainStarted({"cam1"}) /\ BufIdle /\ CamIdle
NextRespawn ==
    \/ TickTo(MaxRespawnTime) /\ UNCHANGED <<recVars, motVars, wrkVars, mainVars, bufVars, camVars, stopVars>>
    \/ WorkerHeartbeat("cam1", [timestamp |-> TRUE, error_message |-> "", fps |-> 15])
           /\ UNCHANGED <<recVars, motVars, wrkVars, mainVars, bufVars, camVars, stopVars>>
    \/ (\E p \in 1..MaxRespawnTime : WorkerExit("cam1", p))
           /\ UNCHANGED <<recVars, motVars, wrkVars, mainVars, bufVars, camVars, stopVars>>
    \/ MonitorBegin /\ UNCHANGED <<recVars, motVars, wrkVars, mainVars, bufVars, camVars, stopVars>>
    \/ ProcessStatusMessage /\ UNCHANGED <<recVars, motVars, wrkVars, mainVars, bufVars, camVars, stopVars>>
    \/ DrainNext /\ UNCHANGED <<recVars, motVars, wrkVars, mainVars, bufVars, camVars, stopVars>>
    \/ CheckHealthTo(MaxRespawnTime)
           /\ UNCHANGED <<recVars, motVars, wrkVars, mainVars, bufVars, camVars, stopVars>>
SpecRespawn == InitRespawn /\ [][NextRespawn]_vars

\* one FFmpegRecorder driven by a calling thread, its monitor threads and
\* its encoder subprocesses
SupIdle == SupInit({})
InitRec == SupIdle /\ RecIdle /\ MotIdle /\ WrkIdle /\ MainIdle /\ BufIdle /\ CamIdle
NextRec ==
    \/ (\E ok \in BOOLEAN : StartRecording(ok)) /\ UNCHANGED <<supVars, motVars, wrkVars, mainVars, bufVars, camVars, stopVars>>
    \/ StopRecordingEnter /\ UNCHANGED <<supVars, motVars, wrkVars, mainVars, bufVars, camVars>>
    \/ StopRecordingSetEvent /\ UNCHANGED <<supVars, motVars, wrkVars, mainVars, bufVars, camVars, stopVars>>
    \/ (\E timedOut \in BOOLEAN : StopRecordingJoinMonitor(timedOut))
           /\ UNCHANGED <<supVars, motVars, wrkVars, mainVars, bufVars, camVars, stopVars>>
    \/ (\E force_immediate, stdin_ready \in BOOLEAN :
           StopRecordingShutdown(force_immediate, stdin_ready, write_queue))
           /\ UNCHANGED <<supVars, motVars, wrkVars, mainVars, bufVars, camVars>>
    \/ StopRecordingFinally /\ UNCHANGED <<supVars, motVars, wrkVars, mainVars, bufVars, camVars>>
    \/ (\E p \in EncoderIds, how \in {"exit0", "failed"} : EncoderExit(p, how))
           /\ UNCHANGED <<supVars, motVars, wrkVars, mainVars, bufVars, camVars, stopVars>>
    \/ (\E m \in MonitorThreads : MonitorWait(m)) /\ UNCHANGED <<supVars, motVars, wrkVars, mainVars, bufVars, camVars, stopVars>>
    \/ (\E m \in MonitorThreads : MonitorPoll(m)) /\ UNCHANGED <<supVars, motVars, wrkVars, mainVars, bufVars, camVars, stopVars>>
    \/ (\E m \in MonitorThreads : MonitorRestartKill(m))
           /\ UNCHANGED <<supVars, motVars, wrkVars, mainVars, bufVars, camVars, stopVars>>
    \/ (\E m \in MonitorThreads, ok \in BOOLEAN : MonitorRestartSpawn(m, ok))
           /\ UNCHANGED <<supVars, motVars, wrkVars, mainVars, bufVars, camVars, stopVars>>
    \/ (\E m \in MonitorThreads : MonitorMarkFailed(m))
           /\ UNCHANGED <<supVars, motVars, wrkVars, mainVars, bufVars, camVars, stopVars>>
SpecRec == InitRec /\ [][NextRec]_vars

\* handle_motion_detection fed frame by frame
InitMotion == SupIdle /\ RecIdle /\ MotIdle /\ WrkIdle /\ MainIdle /\ BufIdle /\ CamIdle
NextMotion ==
    \/ (\E dt \in FrameSteps, motion \in BOOLEAN : MotionFrame(dt, motion))
           /\ UNCHANGED <<supVars, recVars, wrkVars, mainVars, bufVars, camVars, stopVars>>
    \/ RecordingEnd /\ UNCHANGED <<supVars, recVars, wrkVars, mainVars, bufVars, camVars, stopVars>>
SpecMotion == InitMotion /\ [][NextMotion]_vars

\* one CameraWorker: its capture loop, its main-stream (recording controller)
\* thread and the threads that run stop()
InitCamWorker == SupIdle /\ RecIdle /\ MotIdle /\ WrkIdle /\ MainIdle /\ BufIdle /\ CamIdle
NextWorker ==
    \/ (\E dt \in FrameSteps, motion \in BOOLEAN : SubStreamFrame(dt, motion))
           /\ UNCHANGED <<supVars, recVars, mainVars, bufVars, camVars, stopVars>>
    \/ (\E command \in {"start_recording", "stop_recording"} : ManualCommand(command))
           /\ UNCHANGED <<supVars, recVars, mainVars, bufVars, camVars, stopVars>>
    \/ CtlWait /\ UNCHANGED <<supVars, recVars, mainVars, bufVars, camVars, stopVars>>
    \/ (\E ok \in BOOLEAN : CtlNewRecorder(ok)) /\ UNCHANGED <<supVars, recVars, mainVars, bufVars, camVars, stopVars>>
    \/ CtlStartCall /\ UNCHANGED <<supVars, recVars, mainVars, bufVars, camVars, stopVars>>
    \/ CtlStartAcquire /\ UNCHANGED <<supVars, recVars, mainVars, bufVars, camVars, stopVars>>
    \/ (\E ok \in BOOLEAN : CtlStartBody(ok)) /\ UNCHANGED <<supVars, recVars, mainVars, bufVars, camVars, stopVars>>
    \/ CtlStarted /\ UNCHANGED <<supVars, recVars, mainVars, bufVars, camVars, stopVars>>
    \/ (\E break \in BOOLEAN : CtlLeaveRecording(break)) /\ UNCHANGED <<supVars, recVars, mainVars, bufVars, camVars, stopVars>>
    \/ CtlStopCall /\ UNCHANGED <<supVars, recVars, mainVars, bufVars, camVars, stopVars>>
    \/ CtlStopLocked /\ UNCHANGED <<supVars, recVars, mainVars, bufVars, camVars, stopVars>>
    \/ CtlStopRest /\ UNCHANGED <<supVars, recVars, mainVars, bufVars, camVars, stopVars>>
    \/ CtlStopReturn /\ UNCHANGED <<supVars, recVars, mainVars, bufVars, camVars, stopVars>>
    \/ CtlStopClear /\ UNCHANGED <<supVars, recVars, mainVars, bufVars, camVars, stopVars>>
    \/ (\E t \in Stoppers : StopBegin(t)) /\ UNCHANGED <<supVars, recVars, mainVars, bufVars, camVars, stopVars>>
    \/ (\E t \in Stoppers : StopSetEvent(t)) /\ UNCHANGED <<supVars, recVars, mainVars, bufVars, camVars, stopVars>>
    \/ (\E t \in Stoppers : StopCheckRecorder(t)) /\ UNCHANGED <<supVars, recVars, mainVars, bufVars, camVars, stopVars>>
    \/ (\E t \in Stoppers : StopCall(t)) /\ UNCHANGED <<supVars, recVars, mainVars, bufVars, camVars, stopVars>>
    \/ (\E t \in Stoppers : StopLocked(t)) /\ UNCHANGED <<supVars, recVars, mainVars, bufVars, camVars, stopVars>>
    \/ (\E t \in Stoppers : StopRest(t)) /\ UNCHANGED <<supVars, recVars, mainVars, bufVars, camVars, stopVars>>
    \/ (\E t \in Stoppers : StopJoinAndClear(t)) /\ UNCHANGED <<supVars, recVars, mainVars, bufVars, camVars, stopVars>>
SpecWorker == InitCamWorker /\ [][NextWorker]_vars

\* one CameraWorker under manual commands and stop(), with the threads that
\* the scheduler keeps running: the main-stream thread and every thread that
\* has begun stop()
CtlStep ==
    /\ \/ CtlWait
       \/ (\E ok \in BOOLEAN : CtlNewRecorder(ok))
       \/ CtlStartCall
       \/ CtlStartAcquire
       \/ (\E ok \in BOOLEAN : CtlStartBody(ok))
       \/ CtlStarted
       \/ (\E break \in BOOLEAN : CtlLeaveRecording(break))
       \/ CtlStopCall
       \/ CtlStopLocked
       \/ CtlStopRest
       \/ CtlStopReturn
       \/ CtlStopClear
    /\ UNCHANGED <<supVars, recVars, mainVars, bufVars, camVars, stopVars>>
StopperStep(t) ==
    /\ \/ StopSetEvent(t)
       \/ StopCheckRecorder(t)
       \/ StopCall(t)
       \/ StopLocked(t)
       \/ StopRest(t)
       \/ StopJoinAndClear(t)
    /\ UNCHANGED <<supVars, recVars, mainVars, bufVars, camVars, stopVars>>
NextShutdown ==
    \/ (\E command \in {"start_recording", "stop_recording"} : ManualCommand(command))
           /\ UNCHANGED <<supVars, recVars, mainVars, bufVars, camVars, stopVars>>
    \/ CtlStep
    \/ (\E t \in Stoppers : StopBegin(t))
           /\ UNCHANGED <<supVars, recVars, mainVars, bufVars, camVars, stopVars>>
    \/ (\E t \in Stoppers : StopperStep(t))
SpecShutdown ==
    /\ InitCamWorker /\ [][NextShutdown]_vars
    /\ WF_vars(CtlStep)
    /\ \A t \in Stoppers : WF_vars(StopperStep(t))

\* the supervisor of a deployment with two enabled cameras
\* (test_multiple_workers_isolation), started at time TwoStart
InitTwo == SupInitAt(Cameras, TwoStart) /\ RecIdle /\ MotIdle /\ WrkIdle /\ MainStarted(Cameras) /\ BufIdle /\ CamIdle
\* cam1 is the worker that fails: its child may exit and its heartbeats may
\* stop; cam2's child stays alive; heartbeats are healthy ones
HealthyHeartbeat == [timestamp |-> TRUE, error_message |-> "", fps |-> 15]
NextTwo ==
    \/ Tick /\ UNCHANGED <<recVars, motVars, wrkVars, mainVars, bufVars, camVars, stopVars>>
    \/ (\E w \in Cameras : WorkerHeartbeat(w, HealthyHeartbeat))
           /\ UNCHANGED <<recVars, motVars, wrkVars, mainVars, bufVars, camVars, stopVars>>
    \/ (\E p \in 1..(2 * MaxTime) : WorkerExit("cam1", p))
           /\ UNCHANGED <<recVars, motVars, wrkVars, mainVars, bufVars, camVars, stopVars>>
    \/ MonitorBegin /\ UNCHANGED <<recVars, motVars, wrkVars, mainVars, bufVars, camVars, stopVars>>
    \/ ProcessStatusMessage /\ UNCHANGED <<recVars, motVars, wrkVars, mainVars, bufVars, camVars, stopVars>>
    \/ DrainNext /\ UNCHANGED <<recVars, motVars, wrkVars, mainVars, bufVars, camVars, stopVars>>
    \/ CheckHealth /\ UNCHANGED <<recVars, motVars, wrkVars, mainVars, bufVars, camVars, stopVars>>
SpecTwo == InitTwo /\ [][NextTwo]_vars

\* main(): WorkerManager() is constructed, start() runs on the loaded camera
\* configurations, the monitor thread supervises the workers, and stop()
\* runs at shutdown
InitMain ==
    /\ SupInitAt({}, MainStart) /\ RecIdle /\ MotIdle /\ WrkIdle /\ BufIdle /\ CamIdle
    /\ configs \in [Cameras -> CameraConfigs]
    /\ main_pc = "init"
    /\ sup_running = TRUE
    /\ monitor_started = FALSE
    /\ exit_code = NoExit
    /\ stop_i = 1
    /\ stop_deadline = NoTime
    /\ cmd_maxsize = [c \in Cameras |-> 0]
    /\ status_maxsize = [c \in Cameras |-> 0]
NextMain ==
    \/ Start /\ UNCHANGED <<recVars, motVars, wrkVars, bufVars, camVars, stopVars>>
    \/ ManagerStop /\ UNCHANGED <<recVars, motVars, wrkVars, bufVars, camVars, stopVars>>
    \/ ManagerStopWorker /\ UNCHANGED <<recVars, motVars, wrkVars, bufVars, camVars, stopVars>>
    \/ ManagerStopJoin /\ UNCHANGED <<recVars, motVars, wrkVars, bufVars, camVars, stopVars>>
    \/ ManagerStopReturn /\ UNCHANGED <<recVars, motVars, wrkVars, bufVars, camVars, stopVars>>
    \/ ProcessExit /\ UNCHANGED <<recVars, motVars, wrkVars, bufVars, camVars, stopVars>>
    \/ MonitorExit /\ UNCHANGED <<recVars, motVars, wrkVars, mainVars, bufVars, camVars, stopVars>>
    \/ Tick /\ UNCHANGED <<recVars, motVars, wrkVars, mainVars, bufVars, camVars, stopVars>>
    \/ (\E w \in Cameras : WorkerHeartbeat(w, HealthyHeartbeat))
           /\ UNCHANGED <<recVars, motVars, wrkVars, mainVars, bufVars, camVars, stopVars>>
    \/ (\E w \in Cameras, p \in 1..(2 * MaxTime) : WorkerExit(w, p))
           /\ UNCHANGED <<recVars, motVars, wrkVars, mainVars, bufVars, camVars, stopVars>>
    \/ MonitorBegin /\ UNCHANGED <<recVars, motVars, wrkVars, mainVars, bufVars, camVars, stopVars>>
    \/ ProcessStatusMessage /\ UNCHANGED <<recVars, motVars, wrkVars, mainVars, bufVars, camVars, stopVars>>
    \/ DrainNext /\ UNCHANGED <<recVars, motVars, wrkVars, mainVars, bufVars, camVars, stopVars>>
    \/ CheckHealth /\ UNCHANGED <<recVars, motVars, wrkVars, mainVars, bufVars, camVars, stopVars>>
SpecMain == InitMain /\ [][NextMain]_vars

\* one FFmpegRecorder with its buffers: the capture thread calls add_frame,
\* the controller thread start_recording and stop_recording, beside the
\* monitor thread, the writer thread and the encoder subprocesses
InitBuf == SupIdle /\ RecIdle /\ MotIdle /\ WrkIdle /\ MainIdle /\ BufIdle /\ CamIdle
NextBuf ==
    \/ (\E maintenance \in BOOLEAN : AddFrameCheck(maintenance))
           /\ UNCHANGED <<supVars, motVars, wrkVars, mainVars, camVars, stopVars>>
    \/ AddFramePut /\ UNCHANGED <<supVars, motVars, wrkVars, mainVars, camVars, stopVars>>
    \/ WriterGet /\ UNCHANGED <<supVars, motVars, wrkVars, mainVars, camVars, stopVars>>
    \/ (\E written \in BOOLEAN : WriterWrite(written))
           /\ UNCHANGED <<supVars, motVars, wrkVars, mainVars, camVars, stopVars>>
    \/ WriterStop /\ UNCHANGED <<supVars, motVars, wrkVars, mainVars, camVars, stopVars>>
    \/ ResetDroppedFrames /\ UNCHANGED <<supVars, motVars, wrkVars, mainVars, camVars, stopVars>>
    \/ (af_pc = "idle" /\ (\E ok \in BOOLEAN : StartRecording(ok)) /\ BufStartRecording)
           /\ UNCHANGED <<supVars, motVars, wrkVars, mainVars, camVars, stopVars>>
    \/ (af_pc = "idle" /\ StopRecordingEnter)
           /\ UNCHANGED <<supVars, motVars, wrkVars, mainVars, bufVars, camVars>>
    \/ StopRecordingSetEvent /\ UNCHANGED <<supVars, motVars, wrkVars, mainVars, bufVars, camVars, stopVars>>
    \/ (StopRecordingJoinMonitor(FALSE) /\ BufStopWriter)
           /\ UNCHANGED <<supVars, motVars, wrkVars, mainVars, camVars, stopVars>>
    \/ (BufStopDrain /\ (\E force_immediate, stdin_ready \in BOOLEAN :
                             StopRecordingShutdown(force_immediate, stdin_ready,
                                                   write_queue')))
           /\ UNCHANGED <<supVars, motVars, wrkVars, mainVars, camVars>>
    \/ (af_pc = "idle" /\ StopRecordingFinally /\ BufStopFinally)
           /\ UNCHANGED <<supVars, motVars, wrkVars, mainVars, camVars>>
    \/ (\E p \in EncoderIds, how \in {"exit0", "failed"} : EncoderExit(p, how))
           /\ UNCHANGED <<supVars, motVars, wrkVars, mainVars, bufVars, camVars, stopVars>>
    \/ (\E m \in MonitorThreads : MonitorWait(m))
           /\ UNCHANGED <<supVars, motVars, wrkVars, mainVars, bufVars, camVars, stopVars>>
    \/ (\E m \in MonitorThreads : MonitorPoll(m))
           /\ UNCHANGED <<supVars, motVars, wrkVars, mainVars, bufVars, camVars, stopVars>>
    \/ (\E m \in MonitorThreads : MonitorRestartKill(m))
           /\ UNCHANGED <<supVars, motVars, wrkVars, mainVars, bufVars, camVars, stopVars>>
    \/ ((\E m \in MonitorThreads, ok \in BOOLEAN : MonitorRestartSpawn(m, ok)) /\ BufRestart)
           /\ UNCHANGED <<supVars, motVars, wrkVars, mainVars, camVars, stopVars>>
    \/ (af_pc = "idle" /\ (\E m \in MonitorThreads : MonitorMarkFailed(m)))
           /\ UNCHANGED <<supVars, motVars, wrkVars, mainVars, bufVars, camVars, stopVars>>
SpecBuf == InitBuf /\ [][NextBuf]_vars


\* the recording loop of one CameraWorker with the capture loop's results,
\* followed second by second
InitLoop == SupIdle /\ RecIdle /\ MotIdle /\ WrkIdle /\ MainIdle /\ BufIdle /\ CamIdle
NextLoop ==
    \/ (\E motion \in BOOLEAN, fps \in {0, expected_fps},
              error \in {NoError, "Max connection failures reached"} :
           rl_now + 1 <= MaxLoopTime /\ LoopTick(1, motion, fps, error))
           /\ UNCHANGED <<supVars, recVars, motVars, wrkVars, mainVars, bufVars, hbVars, capVars, stopVars>>
    \/ LoopStart /\ UNCHANGED <<supVars, recVars, motVars, wrkVars, mainVars, bufVars, hbVars, capVars, stopVars>>
    \/ (\E stopEvent, ffmpegFailed, highFailureRate \in BOOLEAN :
           LoopIterate(stopEvent, ffmpegFailed, highFailureRate))
           /\ UNCHANGED <<supVars, recVars, motVars, wrkVars, mainVars, bufVars, hbVars, capVars, stopVars>>
SpecLoop == InitLoop /\ [][NextLoop]_vars

\* the same loop followed from one stream-health check to the next
InitHealth == SupIdle /\ RecIdle /\ MotIdle /\ WrkIdle /\ MainIdle /\ BufIdle /\ CamIdle
NextHealth ==
    \/ (\E motion \in BOOLEAN, fps \in {0, expected_fps},
              error \in {NoError, "Max connection failures reached"} :
           /\ rl_now + StreamHealthInterval <= MaxHealthTime
           /\ LoopTick(StreamHealthInterval, motion, fps, error))
           /\ UNCHANGED <<supVars, recVars, motVars, wrkVars, mainVars, bufVars, hbVars, capVars, stopVars>>
    \/ LoopStart /\ UNCHANGED <<supVars, recVars, motVars, wrkVars, mainVars, bufVars, hbVars, capVars, stopVars>>
    \/ (\E stopEvent, ffmpegFailed, highFailureRate \in BOOLEAN :
           LoopIterate(stopEvent, ffmpegFailed, highFailureRate))
           /\ UNCHANGED <<supVars, recVars, motVars, wrkVars, mainVars, bufVars, hbVars, capVars, stopVars>>
SpecHealth == InitHealth /\ [][NextHealth]_vars

\* the capture loop, the heartbeat loop and the main thread of one CameraWorker
InitCapture == SupIdle /\ RecIdle /\ MotIdle /\ WrkIdle /\ MainIdle /\ BufIdle /\ CamIdle
NextCapture ==
    \/ (\E urlFound, opened \in BOOLEAN : CapConnect(urlFound, opened))
           /\ UNCHANGED <<supVars, recVars, motVars, wrkVars, mainVars, bufVars, loopRest, hbVars, stopVars>>
    \/ (\E result \in {"valid", "invalid", "failed"}, dt \in {0, 1},
              fps \in FpsValues \ {0} :
           cp_now + dt <= MaxCapTime /\ CapFrame(result, dt, fps))
           /\ UNCHANGED <<supVars, recVars, motVars, wrkVars, mainVars, bufVars, loopRest, hbVars, stopVars>>
    \/ (\E highFailureRate \in BOOLEAN : CapHealthCheck(highFailureRate))
           /\ UNCHANGED <<supVars, recVars, motVars, wrkVars, mainVars, bufVars, loopRest, hbVars, stopVars>>
    \/ CapLoopExit
           /\ UNCHANGED <<supVars, recVars, motVars, wrkVars, mainVars, bufVars, loopRest, hbVars, stopVars>>
    \/ CapStop
           /\ UNCHANGED <<supVars, recVars, motVars, wrkVars, mainVars, bufVars, loopRest, hbVars, stopVars>>
    \/ MainThreadExit
           /\ UNCHANGED <<supVars, recVars, motVars, wrkVars, mainVars, bufVars, loopRest, hbVars, stopVars>>
    \/ (cp_running /\ ~cp_exited /\ (\E failed, sent \in BOOLEAN : Heartbeat(failed /\ rl_recording, sent)))
           /\ UNCHANGED <<supVars, recVars, motVars, wrkVars, mainVars, bufVars, capVars, stopVars>>
SpecCapture == InitCapture /\ [][NextCapture]_vars

\* the main thread of start() polls self.running every second and the
\* scheduler runs it
SpecCaptureFair ==
    SpecCapture
    /\ WF_vars(MainThreadExit
                 /\ UNCHANGED <<supVars, recVars, motVars, wrkVars, mainVars, bufVars,
                                loopRest, hbVars, stopVars>>)

\* the heartbeat of one CameraWorker in each state the other loops leave it in
InitHeartbeat ==
    /\ SupIdle /\ RecIdle /\ MotIdle /\ WrkIdle /\ MainIdle /\ BufIdle
    /\ HbIdle /\ CapIdle
    /\ rl_now = 0
    /\ rl_recording \in BOOLEAN
    /\ rl_recording_start_time = IF rl_recording THEN 0 ELSE NoTime
    /\ rl_motion_detected = FALSE
    /\ rl_last_fps \in FpsValues
    /\ rl_error_message \in ErrorMessages
    /\ rl_stream_health_failures = 0
    /\ rl_last_valid_stream_time = 0
    /\ rl_last_stream_health_check = 0
    /\ rl_last_motion_time = NoTime
    /\ rl_low_fps_since = NoTime
    /\ rl_ev = IF rl_recording THEN "recording" ELSE "none"
NextHeartbeat ==
    \/ (\E failed, sent \in BOOLEAN : Heartbeat(failed, sent))
           /\ UNCHANGED <<supVars, recVars, motVars, wrkVars, mainVars, bufVars, capVars, stopVars>>
SpecHeartbeat == InitHeartbeat /\ [][NextHeartbeat]_vars
====
